---- MODULE Spec2Model ----
(***************************************************************************)
(* Name resolution and sender validation of the calendar / time-entry MCP  *)
(* servers: CalendarAIHelper.match_user_name, ai_match_user_name and       *)
(* CalendarAIHelper.validate_sender, each run against a directory pool     *)
(* and a text-completion backend whose answer is an input of the call;     *)
(* the calendar tools check_availability and book_meeting with their       *)
(* deterministic name lookup; time-entry extraction and process_time_entry;*)
(* sanitize_unicode.                                                       *)
(*                                                                         *)
(* Encoding of Python values:                                              *)
(*   str        a sequence of one-character strings over Chars             *)
(*   None       the one-element sequence None (no str has that element)    *)
(*   float      confidences are counted in units of 1/10000                *)
(*   JSON value a tag ("absent", "null", "true", ...) where the code only  *)
(*              tests presence or truthiness; a record [kind, val] where   *)
(*              the value itself is passed on                              *)
(***************************************************************************)
EXTENDS Integers, Sequences, FiniteSets, TLC

VARIABLES
    users_list,     \* the directory pool handed to the call
    pc,             \* "idle" before the call, "done" after it
    op,             \* the function that was called
    query_name,     \* match_user_name / ai_match_user_name argument
    sender_name,    \* validate_sender argument
    sender_email,   \* validate_sender argument
    response,       \* what the completion backend answered, if it was called
    aiCalls,        \* number of chat.completions.create calls issued by the call
    result,         \* what the call returned or raised
    azure_openai_client,  \* mcp_time_entry_server: TRUE iff the module-level client was built
    directory,      \* the users the directory provider holds (Graph /users records)
    args,           \* arguments of the tool call
    calls,          \* external calls the tool call issued, in order
    request,        \* the body of the write (event creation / webhook POST) it sent
    extract_response, \* what the completion backend answered to the extraction prompt
    webhook,        \* N8N_TIMEENTRY_WEBHOOK as configured
    credentials     \* which AI-backend environment variables are set

toolVars == <<directory, args, calls, request, extract_response, webhook, credentials>>

vars == <<users_list, pc, op, query_name, sender_name, sender_email, response, aiCalls,
          result, azure_openai_client, toolVars>>

(* ------------------------------ bounds --------------------------------- *)

MaxPool == 2

MaxEmailLen == 2

MaxNameLen == 3

(* ------------------------------ strings -------------------------------- *)

Chars == {"a", "A", "b", " "}

None == <<"None">>

RECURSIVE StringsUpTo(_)
StringsUpTo(n) ==
    IF n = 0 THEN {<<>>}
    ELSE LET shorter == StringsUpTo(n - 1)
         IN  shorter \cup {Append(s, c) : s \in {t \in shorter : Len(t) = n - 1}, c \in Chars}

\* str.lower(), on the characters of Chars
LowerChar(c) == IF c = "A" THEN "a" ELSE c

Lower(s) == [i \in 1..Len(s) |-> LowerChar(s[i])]

SetMin(S) == CHOOSE x \in S : \A y \in S : x <= y

SetMax(S) == CHOOSE x \in S : \A y \in S : x >= y

\* str.strip(): drops leading and trailing whitespace
Strip(s) ==
    LET keep == {i \in 1..Len(s) : s[i] # " "}
    IN  IF keep = {} THEN <<>> ELSE SubSeq(s, SetMin(keep), SetMax(keep))

\* Python truthiness of an optional str: None and "" are falsy
Truthy(s) == s # None /\ s # <<>>

\* `not s or not s.strip()`
IsBlank(s) == ~Truthy(s) \/ Strip(s) = <<>>

\* `(x or '')`
OrEmpty(s) == IF Truthy(s) THEN s ELSE <<>>

\* `(...).lower().strip()`
Normalize(s) == Strip(Lower(s))

\* seq[:n]
Take(seq, n) == SubSeq(seq, 1, IF Len(seq) < n THEN Len(seq) ELSE n)

RECURSIVE SelectTruthy(_)
SelectTruthy(seq) ==
    IF seq = <<>> THEN <<>>
    ELSE IF Truthy(Head(seq)) THEN <<Head(seq)>> \o SelectTruthy(Tail(seq))
         ELSE SelectTruthy(Tail(seq))

(* ----------------------------- directory ------------------------------- *)

\* identities a directory fetch can deliver: two emails that differ only in
\* case and padding, a distinct one, and an entry without email
PoolUsers ==
    { [name |-> <<"a", "b">>, email |-> <<"a">>],
      [name |-> <<"A">>,      email |-> <<"A", " ">>],
      [name |-> <<"b">>,      email |-> <<"b">>],
      [name |-> <<"b", "b">>, email |-> None] }

RECURSIVE SeqsUpTo(_, _)
SeqsUpTo(S, n) ==
    IF n = 0 THEN {<<>>}
    ELSE LET shorter == SeqsUpTo(S, n - 1)
         IN  shorter \cup {Append(s, x) : s \in {t \in shorter : Len(t) = n - 1}, x \in S}

Pools == SeqsUpTo(PoolUsers, MaxPool)

NoUser == [name |-> None, email |-> None]

(* ------------------------------ backend -------------------------------- *)

\* self.min_confidence_name = 0.9, in units of 1/10000
min_confidence_name == 9000

\* self.min_confidence_sender = 0.95, in units of 1/10000
min_confidence_sender == 9500

\* confidences the simulated backend reports, around each threshold
MatchConfidences == {min_confidence_name - 1, min_confidence_name, min_confidence_name + 1}

SenderConfidences == {min_confidence_sender - 1, min_confidence_sender, min_confidence_sender + 1}

\* JSON "confidence": missing, a number, or a value `<` cannot compare with a float
ConfValues(nums) ==
    {[t |-> "absent", n |-> 0], [t |-> "other", n |-> 0]} \cup {[t |-> "num", n |-> k] : k \in nums}

\* "name" / "email" of a response: missing, one found in PoolUsers, a foreign one
ResponseNames == {None, <<"a", "b">>, <<"b", "a">>}

ResponseEmails == {None, <<"a">>, <<"b", "a">>}

\* how the content is wrapped: bare text, ``` ... ```, ```json ... ```, or a
\* fence with another language tag
Fences == {"none", "bare", "json", "other"}

NoResponse ==
    [kind |-> "nocall", exc |-> "none", fence |-> "none", body |-> "none",
     match |-> "absent", valid |-> "absent",
     conf |-> [t |-> "absent", n |-> 0], name |-> None, email |-> None]

\* chat.completions.create raises: a ValueError (or subclass), or any other Exception
BackendErrors ==
    {[NoResponse EXCEPT !.kind = "error", !.exc = e] : e \in {"ValueError", "Exception"}}

\* the call returns a message without content (content is None)
NoContent == [NoResponse EXCEPT !.kind = "nocontent"]

\* the content is text whose body is not JSON, or JSON that is not an object
NonObjectTexts ==
    {[NoResponse EXCEPT !.kind = "text", !.fence = f, !.body = b] :
        f \in Fences, b \in {"invalid", "array"}}

ObjectTexts(matches, valids, confs) ==
    {[kind |-> "text", exc |-> "none", fence |-> f, body |-> "object",
      match |-> m, valid |-> v, conf |-> c, name |-> n, email |-> e] :
        f \in Fences, m \in matches, v \in valids, c \in confs,
        n \in ResponseNames, e \in ResponseEmails}

\* answers to the name-matching prompt
MatchResponses ==
    BackendErrors \cup {NoContent} \cup NonObjectTexts
        \cup ObjectTexts({"absent", "null", "value"}, {"absent"}, ConfValues(MatchConfidences))

\* answers to the sender-validation prompt
SenderResponses ==
    BackendErrors \cup {NoContent} \cup NonObjectTexts
        \cup ObjectTexts({"absent"}, {"absent", "false", "true", "string"}, ConfValues(SenderConfidences))

\* result_text after the markdown fence is removed, then json.loads: the JSON
\* class of the value, or "JSONDecodeError"
ParseJson(r) ==
    IF r.fence = "other" THEN "JSONDecodeError"
    ELSE IF r.body = "invalid" THEN "JSONDecodeError"
    ELSE r.body

\* Python truthiness of the JSON value under "valid" (result.get("valid", False))
IsValid(r) == r.valid \in {"true", "string"}

\* result.get("match") is None
MatchIsNone(r) == r.match \in {"absent", "null"}

(* ------------------------------ results -------------------------------- *)

NoArgs == [tool |-> "none"]

\* AZURE_OPENAI_API_KEY, AZURE_OPENAI_ENDPOINT, AZURE_OPENAI_MODEL: set or not
CredentialSets == [key : BOOLEAN, endpoint : BOOLEAN, model : BOOLEAN]

AllCredentials == [key |-> TRUE, endpoint |-> TRUE, model |-> TRUE]

NoCredentials == [key |-> FALSE, endpoint |-> FALSE, model |-> FALSE]

\* the module-level client: built when the three variables are set and the
\* AzureOpenAI constructor does not raise, None otherwise
LoadClient(c, built) == c.key /\ c.endpoint /\ c.model /\ built

\* an environment that leaves the client in the given state
CredentialsOf(client) == IF client THEN AllCredentials ELSE NoCredentials

NoRequest == [kind |-> "none"]

NoExtraction == [kind |-> "nocall"]

Pending == [kind |-> "pending", user |-> NoUser, error |-> "none", examples |-> <<>>]

ReturnUser(u) == [kind |-> "user", user |-> u, error |-> "none", examples |-> <<>>]

ReturnNone == [kind |-> "none", user |-> NoUser, error |-> "none", examples |-> <<>>]

Raise(e) == [kind |-> "raise", user |-> NoUser, error |-> e, examples |-> <<>>]

RaiseWith(e, ex) == [kind |-> "raise", user |-> NoUser, error |-> e, examples |-> ex]

(* --------------------- CalendarAIHelper.validate_sender ---------------- *)

SenderNames == {None, <<>>, <<" ">>, <<"a">>, <<" ", "b">>}

SenderEmails == {None} \cup StringsUpTo(MaxEmailLen)

\* variant: the whitespace-only test (`not sender_email.strip()`) is left out
SenderEmailMissing_NoStrip(email) == ~Truthy(email)

\* `if not sender_email or not sender_email.strip()`
SenderEmailMissing(email) == IsBlank(email)

\* variant: the pool side of the comparison is not lowercased
FindByEmail_CaseSensitive(pool, email_lower) ==
    LET hits == {i \in 1..Len(pool) : Strip(OrEmpty(pool[i].email)) = email_lower}
    IN  IF hits = {} THEN 0 ELSE SetMin(hits)

\* variant: the loop has no `break`, so the last matching entry wins
FindByEmail_LastHit(pool, email_lower) ==
    LET hits == {i \in 1..Len(pool) : Normalize(OrEmpty(pool[i].email)) = email_lower}
    IN  IF hits = {} THEN 0 ELSE SetMax(hits)

\* the scan for sender_user_by_email: index of the first entry whose email,
\* lowercased and stripped, equals sender_email_lower; 0 when the loop ends
\* without a break
FindByEmail(pool, email_lower) ==
    LET hits == {i \in 1..Len(pool) : Normalize(OrEmpty(pool[i].email)) = email_lower}
    IN  IF hits = {} THEN 0 ELSE SetMin(hits)

\* available_emails[:3] of [user.get('email', 'N/A') for user in users_list[:5] if user.get('email')]
ExampleEmails(pool) ==
    Take(SelectTruthy([i \in 1..Len(Take(pool, 5)) |-> pool[i].email]), 3)

\* `if not sender_name or not sender_name.strip()`
SenderNameMissing(name) == IsBlank(name)

\* `if not is_valid or confidence < self.min_confidence_sender`, for a numeric confidence n
SenderRejects(is_valid, n) == ~is_valid \/ n < min_confidence_sender

\* validated_user built from the parsed response
ValidatedUser(r, email, by) ==
    [name  |-> IF Truthy(r.name) THEN r.name ELSE by.name,
     email |-> IF Truthy(r.email) THEN r.email ELSE email]

\* the part of validate_sender that runs before the backend is asked: a
\* result, or the email-matched entry to ask the backend about
SenderBeforeBackend(name, email, pool) ==
    IF SenderEmailMissing(email)
    THEN [ask |-> FALSE, by |-> NoUser, result |-> Raise("sender_email is REQUIRED")]
    ELSE LET i == FindByEmail(pool, Normalize(email))
         IN  IF i = 0
             THEN [ask |-> FALSE, by |-> NoUser,
                   result |-> RaiseWith("Sender email not found", ExampleEmails(pool))]
             ELSE IF SenderNameMissing(name)
                  THEN [ask |-> FALSE, by |-> pool[i], result |-> ReturnUser(pool[i])]
                  ELSE [ask |-> TRUE, by |-> pool[i], result |-> Pending]

\* the try block of validate_sender, given what the backend answered
SenderAfterBackend(r, email, by) ==
    IF r.kind = "error"
    THEN IF r.exc = "ValueError"
         THEN Raise("backend ValueError")            \* except ValueError: raise
         ELSE ReturnUser(by)                          \* except Exception: email-based match
    ELSE IF r.kind = "nocontent"
    THEN ReturnUser(by)                               \* None.strip(): AttributeError
    ELSE IF ParseJson(r) = "JSONDecodeError"
    THEN ReturnUser(by)                               \* except json.JSONDecodeError
    ELSE IF ParseJson(r) # "object"
    THEN ReturnUser(by)                               \* result.get: AttributeError
    ELSE IF ~IsValid(r)
    THEN Raise("Sender validation failed")            \* `or` short-circuits
    ELSE IF r.conf.t = "other"
    THEN ReturnUser(by)                               \* `<` raises TypeError
    ELSE IF SenderRejects(IsValid(r), IF r.conf.t = "absent" THEN 0 ELSE r.conf.n)
    THEN Raise("Sender validation failed")
    ELSE ReturnUser(ValidatedUser(r, email, by))

validate_sender ==
    /\ pc = "idle"
    /\ \E name \in SenderNames, email \in SenderEmails :
         LET pre == SenderBeforeBackend(name, email, users_list)
         IN  /\ sender_name' = name
             /\ sender_email' = email
             /\ IF pre.ask
                THEN \E r \in SenderResponses :
                        /\ response' = r
                        /\ aiCalls' = 1
                        /\ result' = SenderAfterBackend(r, email, pre.by)
                ELSE /\ response' = NoResponse
                     /\ aiCalls' = 0
                     /\ result' = pre.result
    /\ op' = "validate_sender"
    /\ pc' = "done"
    /\ UNCHANGED <<users_list, query_name, azure_openai_client, toolVars>>

(* ------- CalendarAIHelper.match_user_name and ai_match_user_name ------- *)

QueryNames == {None, <<>>, <<" ">>, <<"a">>, <<" ", "b">>}

\* `if confidence < self.min_confidence_name`, for a numeric confidence n
HelperMatchRejects(n) == n < min_confidence_name

\* `if confidence < 0.9`, for a numeric confidence n
ServerMatchRejects(n) == n < 9000

\* matched_user built from the parsed response
MatchedUser(r) == [name |-> r.name, email |-> r.email]

\* variant: a whitespace-only query is not taken for an empty one
HelperMatchSkips_NoStrip(query, pool) == ~Truthy(query) \/ pool = <<>>

\* match_user_name returns before the try block
HelperMatchSkips(query, pool) == IsBlank(query) \/ pool = <<>>

\* variant: invalid JSON is treated as "no match" instead of an error
HelperMatchAfterBackend_SilentNone(r) ==
    IF r.kind = "error"
    THEN Raise("Failed to match user name")
    ELSE IF r.kind = "nocontent"
    THEN Raise("Failed to match user name")
    ELSE IF ParseJson(r) = "JSONDecodeError"
    THEN ReturnNone
    ELSE IF ParseJson(r) # "object"
    THEN Raise("Failed to match user name")
    ELSE IF MatchIsNone(r)
    THEN ReturnNone
    ELSE IF r.conf.t = "other"
    THEN Raise("Failed to match user name")
    ELSE IF HelperMatchRejects(IF r.conf.t = "absent" THEN 0 ELSE r.conf.n)
    THEN ReturnNone
    ELSE ReturnUser(MatchedUser(r))

\* the try block of match_user_name, given what the backend answered; every
\* exception, the inner ValueError for invalid JSON included, leaves through
\* `except Exception` as ValueError("Failed to match user name ...")
HelperMatchAfterBackend(r) ==
    IF r.kind = "error"
    THEN Raise("Failed to match user name")
    ELSE IF r.kind = "nocontent"
    THEN Raise("Failed to match user name")           \* None.strip(): AttributeError
    ELSE IF ParseJson(r) = "JSONDecodeError"
    THEN Raise("Failed to match user name")           \* AI returned invalid JSON
    ELSE IF ParseJson(r) # "object"
    THEN Raise("Failed to match user name")           \* result.get: AttributeError
    ELSE IF MatchIsNone(r)
    THEN ReturnNone
    ELSE IF r.conf.t = "other"
    THEN Raise("Failed to match user name")           \* `<` raises TypeError
    ELSE IF HelperMatchRejects(IF r.conf.t = "absent" THEN 0 ELSE r.conf.n)
    THEN ReturnNone
    ELSE ReturnUser(MatchedUser(r))

match_user_name ==
    /\ pc = "idle"
    /\ \E query \in QueryNames :
         /\ query_name' = query
         /\ IF HelperMatchSkips(query, users_list)
            THEN /\ response' = NoResponse
                 /\ aiCalls' = 0
                 /\ result' = ReturnNone
            ELSE \E r \in MatchResponses :
                    /\ response' = r
                    /\ aiCalls' = 1
                    /\ result' = HelperMatchAfterBackend(r)
    /\ op' = "match_user_name"
    /\ pc' = "done"
    /\ UNCHANGED <<users_list, sender_name, sender_email, azure_openai_client, toolVars>>

\* variant: the client is not tested before it is used
ServerMatchBeforeBackend_NoClientCheck(query, pool, client) ==
    IF IsBlank(query) \/ pool = <<>>
    THEN [ask |-> FALSE, result |-> ReturnNone]
    ELSE [ask |-> TRUE, result |-> Pending]

\* ai_match_user_name returns or raises before the try block
ServerMatchBeforeBackend(query, pool, client) ==
    IF ~client
    THEN [ask |-> FALSE, result |-> Raise("Azure OpenAI not configured")]
    ELSE IF IsBlank(query) \/ pool = <<>>
    THEN [ask |-> FALSE, result |-> ReturnNone]
    ELSE [ask |-> TRUE, result |-> Pending]

\* the try block of ai_match_user_name, given what the backend answered
ServerMatchAfterBackend(r) ==
    IF r.kind = "error"
    THEN Raise("Failed to match user name")
    ELSE IF r.kind = "nocontent"
    THEN Raise("Failed to match user name")           \* None.strip(): AttributeError
    ELSE IF ParseJson(r) = "JSONDecodeError"
    THEN Raise("Failed to match user name")           \* json.loads raises
    ELSE IF ParseJson(r) # "object"
    THEN Raise("Failed to match user name")           \* result.get: AttributeError
    ELSE IF MatchIsNone(r)
    THEN ReturnNone
    ELSE IF r.conf.t = "other"
    THEN Raise("Failed to match user name")           \* `<` raises TypeError
    ELSE IF ServerMatchRejects(IF r.conf.t = "absent" THEN 0 ELSE r.conf.n)
    THEN ReturnNone
    ELSE ReturnUser(MatchedUser(r))

ai_match_user_name ==
    /\ pc = "idle"
    /\ \E query \in QueryNames :
         LET pre == ServerMatchBeforeBackend(query, users_list, azure_openai_client)
         IN  /\ query_name' = query
             /\ IF pre.ask
                THEN \E r \in MatchResponses :
                        /\ response' = r
                        /\ aiCalls' = 1
                        /\ result' = ServerMatchAfterBackend(r)
                ELSE /\ response' = NoResponse
                     /\ aiCalls' = 0
                     /\ result' = pre.result
    /\ op' = "ai_match_user_name"
    /\ pc' = "done"
    /\ UNCHANGED <<users_list, sender_name, sender_email, azure_openai_client, toolVars>>

(* ------------------------ directory provider --------------------------- *)

\* characters with a code point above 255
WideChars == {"U+0100", "U+0101"}

\* sanitize_unicode on one character: `char if ord(char) <= 255 else '?'`
SanitizeChar(c) == IF c \in WideChars THEN "?" ELSE c

\* sanitize_unicode on a str (None is returned as-is)
SanitizeStr(s) == IF s = None THEN None ELSE [i \in 1..Len(s) |-> SanitizeChar(s[i])]

\* users the provider can hold: names that differ in case and whitespace,
\* names contained in one another, a name and an email with a wide
\* character, a missing mail (userPrincipalName is used), a null displayName
GraphUsers ==
    { [id |-> 1, displayName |-> <<"a", "b">>,           mail |-> <<"a", "@">>,
       userPrincipalName |-> <<"a", "@">>],
      [id |-> 2, displayName |-> <<" ", "a", "b", " ">>, mail |-> None,
       userPrincipalName |-> <<"A", "@">>],
      [id |-> 3, displayName |-> <<"a", "b", "b">>,      mail |-> <<"b", "@">>,
       userPrincipalName |-> <<"b", "@">>],
      [id |-> 4, displayName |-> <<"A", " ", " ", "b">>, mail |-> <<"a", "b", "@">>,
       userPrincipalName |-> <<"b", "a", "@">>],
      [id |-> 5, displayName |-> <<"b", "U+0100">>,      mail |-> <<"U+0100", "@">>,
       userPrincipalName |-> <<"U+0100", "@">>],
      [id |-> 6, displayName |-> None,                   mail |-> <<"b", "b", "@">>,
       userPrincipalName |-> <<"b", "b", "@">>] }

\* directories: up to MaxPool distinct users, in any order
Directories ==
    {d \in SeqsUpTo(GraphUsers, MaxPool) : \A i, j \in 1..Len(d) : i # j => d[i] # d[j]}

\* a key that a provider record does not have
Absent == <<"Absent">>

Unknown == <<"U", "n", "k", "n", "o", "w", "n">>

\* user.get(key): None when the key is missing
GetField(v) == IF v = Absent THEN None ELSE v

\* user.get(key, default): the default only when the key is missing
GetOr(v, default) == IF v = Absent THEN default ELSE v

\* user.get('displayName', 'Unknown')
DisplayName(v) == GetOr(v, Unknown)

\* _fetch_users_list / fetch_users_list: name and email of every user, sanitized
FetchUsers(dir) ==
    [i \in 1..Len(dir) |->
        [name  |-> SanitizeStr(DisplayName(dir[i].displayName)),
         email |-> SanitizeStr(IF Truthy(GetField(dir[i].mail)) THEN dir[i].mail
                               ELSE GetField(dir[i].userPrincipalName))]]

\* get_user_id_by_email over the users from position i on: the id of the first
\* user whose mail or userPrincipalName equals email case-insensitively
RECURSIVE ScanUserId(_, _, _)
ScanUserId(dir, i, email) ==
    IF i > Len(dir) THEN [kind |-> "notfound", id |-> 0]
    ELSE IF email = None \/ dir[i].userPrincipalName = None
    THEN IF Truthy(dir[i].mail) /\ email # None /\ Lower(dir[i].mail) = Lower(email)
         THEN [kind |-> "found", id |-> dir[i].id]
         ELSE [kind |-> "crash", id |-> 0]              \* None.lower(): AttributeError
    ELSE IF Truthy(dir[i].mail) /\ Lower(dir[i].mail) = Lower(email)
    THEN [kind |-> "found", id |-> dir[i].id]
    ELSE IF Lower(dir[i].userPrincipalName) = Lower(email)
    THEN [kind |-> "found", id |-> dir[i].id]
    ELSE ScanUserId(dir, i + 1, email)

get_user_id_by_email(dir, email) == ScanUserId(dir, 1, email)

(* ----------------------- deterministic name lookup --------------------- *)

\* str.split(): the maximal runs of non-whitespace characters
RECURSIVE Split(_)
Split(s) ==
    IF s = <<>> THEN <<>>
    ELSE IF Head(s) = " " THEN Split(Tail(s))
    ELSE LET blanks == {i \in 1..Len(s) : s[i] = " "}
             n == IF blanks = {} THEN Len(s) ELSE SetMin(blanks) - 1
         IN  <<SubSeq(s, 1, n)>> \o Split(SubSeq(s, n + 1, Len(s)))

\* ' '.join(words)
RECURSIVE JoinSpace(_)
JoinSpace(words) ==
    IF words = <<>> THEN <<>>
    ELSE IF Len(words) = 1 THEN words[1]
    ELSE words[1] \o <<" ">> \o JoinSpace(Tail(words))

\* variant: runs of internal whitespace are not collapsed
NormalizeName_NoCollapse(s) == Strip(Lower(s))

\* ' '.join(x.lower().strip().split())
NormalizeName(s) == JoinSpace(Split(Strip(Lower(s))))

\* `a in b` on str
IsSubstring(a, b) ==
    \E i \in 0..(Len(b) - Len(a)) : SubSeq(b, i + 1, i + Len(a)) = a

\* `'@' in s`
HasAt(s) == \E i \in 1..Len(s) : s[i] = "@"

\* the partial-match loop from position i on, target being the index held in
\* target_user so far (0 for None): a candidate replaces the target when its
\* normalized name is longer than len(target_user['name'])
RECURSIVE PartialMatch(_, _, _, _)
PartialMatch(users, search_name, i, target) ==
    IF i > Len(users) THEN target
    ELSE LET user_name_normalized == NormalizeName(users[i].name)
             hit == IsSubstring(search_name, user_name_normalized)
                        \/ IsSubstring(user_name_normalized, search_name)
             take == hit /\ (target = 0
                               \/ Len(user_name_normalized) > Len(users[target].name))
         IN  PartialMatch(users, search_name, i + 1, IF take THEN i ELSE target)

\* the name lookup of check_availability: exact match on normalized names
\* first (first match wins), else the partial-match loop; a None name met by
\* a loop raises AttributeError
ResolveByName(query, users) ==
    LET search_name == NormalizeName(query)
        nones == {i \in 1..Len(users) : users[i].name = None}
        exact == {i \in 1..Len(users) :
                    users[i].name # None /\ NormalizeName(users[i].name) = search_name}
    IN  IF exact # {} /\ (nones = {} \/ SetMin(exact) < SetMin(nones))
        THEN [kind |-> "found", idx |-> SetMin(exact)]
        ELSE IF nones # {}
        THEN [kind |-> "crash", idx |-> 0]
        ELSE LET target == PartialMatch(users, search_name, 1, 0)
             IN  IF target = 0 THEN [kind |-> "notfound", idx |-> 0]
                 ELSE [kind |-> "found", idx |-> target]

\* the sender lookup of book_meeting (same statements as in check_availability)
ResolveSender(sender, users) == ResolveByName(sender, users)

\* the user_email lookup of book_meeting (same statements as in check_availability)
ResolveTarget(query, users) == ResolveByName(query, users)

\* available_names = [user['name'] for user in users[:5]]
ExampleNames(users) == [i \in 1..Len(Take(users, 5)) |-> users[i].name]

(* ------------------------------ calendar tools ------------------------- *)

\* what a tool call leaves behind: its result, the external calls it issued,
\* the write it sent and the users list it fetched
Outcome(res, log, req, users) ==
    [result |-> res, calls |-> log, request |-> req, users |-> users]

\* the tool returned; user is the identity the call acted for
Returned(kind, u) == [kind |-> kind, user |-> u, error |-> "none", examples |-> <<>>]

\* the k-th external call of the tool call is the one that fails (0: none does)
FailsAt(log, fail) == Len(log) = fail

HttpError == Raise("HTTPStatusError")

NameQueries == StringsUpTo(MaxNameLen)

EmailQueries ==
    { <<"a", "@">>, <<"A", "@">>, <<"b", "a", "@">>, <<"?", "@">>, <<"b", "@", " ">> }

Dates == {"", "valid", "invalid"}

\* the longest sequence of external calls a calendar tool issues
MaxCalendarCalls == 6

\* get_calendar_view and the rest of check_availability, once user_email is known
AvailabilityFor(user_email, date, dir, fail, log0, users, events) ==
    IF date = "invalid"
    THEN Outcome(Raise("Invalid date"), log0, NoRequest, users)       \* strptime: ValueError
    ELSE LET log1 == Append(log0, "token")
             log2 == Append(log1, "token")
             log3 == Append(log2, "list_users")
             log4 == Append(log3, "calendar_view")
             found == get_user_id_by_email(dir, user_email)
         IN  IF FailsAt(log1, fail) THEN Outcome(HttpError, log1, NoRequest, users)
             ELSE IF FailsAt(log2, fail) THEN Outcome(HttpError, log2, NoRequest, users)
             ELSE IF FailsAt(log3, fail) THEN Outcome(HttpError, log3, NoRequest, users)
             ELSE IF found.kind = "crash"
             THEN Outcome(Raise("AttributeError"), log3, NoRequest, users)
             ELSE IF found.kind = "notfound"
             THEN Outcome(Raise("User not found"), log3, NoRequest, users)
             ELSE IF FailsAt(log4, fail) THEN Outcome(HttpError, log4, NoRequest, users)
             ELSE Outcome([kind |-> "availability",
                           user |-> [name |-> None, email |-> SanitizeStr(user_email)],
                           error |-> "none", examples |-> <<>>,
                           total_events |-> events,
                           is_completely_free |-> (events = 0)],
                          log4, NoRequest, users)

\* check_availability(user_email, date)
CheckAvailability(a, dir, fail, events) ==
    IF ~HasAt(a.user_email)
    THEN LET log1 == <<"token">>
             log2 == <<"token", "users">>
             users == FetchUsers(dir)
             target == ResolveByName(a.user_email, users)
         IN  IF FailsAt(log1, fail) THEN Outcome(HttpError, log1, NoRequest, <<>>)
             ELSE IF FailsAt(log2, fail) THEN Outcome(HttpError, log2, NoRequest, <<>>)
             ELSE IF target.kind = "crash"
             THEN Outcome(Raise("AttributeError"), log2, NoRequest, users)
             ELSE IF target.kind = "notfound"
             THEN Outcome(RaiseWith("User not found by name", ExampleNames(users)),
                          log2, NoRequest, users)
             ELSE AvailabilityFor(users[target.idx].email, a.date, dir, fail, log2, users, events)
    ELSE AvailabilityFor(a.user_email, a.date, dir, fail, <<>>, <<>>, events)

check_availability ==
    /\ pc = "idle"
    /\ \E user_email \in NameQueries \cup EmailQueries, date \in Dates,
          fail \in 0..MaxCalendarCalls, events \in 0..1 :
         LET a == [tool |-> "check_availability", user_email |-> user_email, date |-> date]
             out == CheckAvailability(a, directory, fail, events)
         IN  /\ args' = a
             /\ result' = out.result
             /\ calls' = out.calls
             /\ request' = out.request
             /\ users_list' = out.users
    /\ op' = "check_availability"
    /\ pc' = "done"
    /\ UNCHANGED <<query_name, sender_name, sender_email, response, aiCalls,
                   azure_openai_client, directory, extract_response, webhook, credentials>>

\* datetime.fromisoformat of an argument: unparseable, or an instant that is
\* timezone-aware or naive
DateTime(t) == [ok |-> TRUE, aware |-> FALSE, t |-> t]

AwareDateTime(t) == [ok |-> TRUE, aware |-> TRUE, t |-> t]

Unparseable == [ok |-> FALSE, aware |-> FALSE, t |-> 0]

\* <<start_datetime, end_datetime>>
DateTimePairs ==
    { <<DateTime(1), DateTime(2)>>, <<DateTime(1), DateTime(1)>>, <<DateTime(2), DateTime(1)>>,
      <<Unparseable, DateTime(1)>>, <<DateTime(1), Unparseable>>,
      <<AwareDateTime(1), AwareDateTime(2)>>, <<DateTime(1), AwareDateTime(2)>> }

BookSenders ==
    { <<"a", "b">>, <<" ", "A", "b">>, <<"a", " ", "b">>, <<"b">>, <<"b", "a">>, <<>> }

BookTargets ==
    { <<"a", "b", "b">>, <<"a">>, <<"A", " ", "b", " ">>, <<"b", "a">>,
      <<"A", "@">>, <<"b", "@">>, <<"?", "@">> }

\* attendees: None, or a list of addresses
AttendeeLists ==
    { [given |-> FALSE, list |-> <<>>],
      [given |-> TRUE,  list |-> <<>>],
      [given |-> TRUE,  list |-> << <<"A", "@">> >>],
      [given |-> TRUE,  list |-> << <<"b", "@">>, <<"a", "@">>, <<"A", "@">>, <<"b", "@">> >>] }

Bodies == {<<>>, <<"b">>}

\* sender_info = f"<p><strong>Booked by:</strong> {name} ({email})</p>"
SenderInfo(name, email) ==
    <<"<p><strong>Booked by:</strong> ">> \o name \o <<" (">> \o email \o <<")</p>">>

\* meeting_body: sender_info, then "<br>" and the body when there is one
MeetingBody(name, email, body) ==
    SenderInfo(name, email) \o (IF body # <<>> THEN <<"<br>">> \o body ELSE <<>>)

Attendee(address) == [address |-> address, type |-> "required"]

\* variant: the addresses are compared case-sensitively
RECURSIVE OtherAttendees_CaseSensitive(_, _)
OtherAttendees_CaseSensitive(list, sender) ==
    IF list = <<>> THEN <<>>
    ELSE IF Head(list) # sender
    THEN <<Attendee(Head(list))>> \o OtherAttendees_CaseSensitive(Tail(list), sender)
    ELSE OtherAttendees_CaseSensitive(Tail(list), sender)

\* the additional attendees: every address that differs from the sender's
\* case-insensitively, in the order given
RECURSIVE OtherAttendees(_, _)
OtherAttendees(list, sender) ==
    IF list = <<>> THEN <<>>
    ELSE IF Lower(Head(list)) # Lower(sender)
    THEN <<Attendee(Head(list))>> \o OtherAttendees(Tail(list), sender)
    ELSE OtherAttendees(Tail(list), sender)

\* attendees_list: the sender first, then the additional attendees
AttendeesList(sender, attendees) ==
    <<Attendee(sender)>> \o (IF attendees.given THEN OtherAttendees(attendees.list, sender) ELSE <<>>)

\* variant: `end_dt < start_dt`, an empty meeting passes
EndNotAfterStart_Strict(start, end) == end.t < start.t

\* `end_dt <= start_dt`
EndNotAfterStart(start, end) == end.t <= start.t

\* the part of book_meeting after both lookups: user id, event data, POST
CreateEvent(a, dir, fail, log0, users, sender_user, user_email) ==
    LET log1 == Append(log0, "token")
        log2 == Append(log1, "token")
        log3 == Append(log2, "list_users")
        log4 == Append(log3, "create_event")
        found == get_user_id_by_email(dir, user_email)
        senderEmail == sender_user.email
    IN  IF FailsAt(log1, fail) THEN Outcome(HttpError, log1, NoRequest, users)
        ELSE IF FailsAt(log2, fail) THEN Outcome(HttpError, log2, NoRequest, users)
        ELSE IF FailsAt(log3, fail) THEN Outcome(HttpError, log3, NoRequest, users)
        ELSE IF found.kind = "crash"
        THEN Outcome(Raise("AttributeError"), log3, NoRequest, users)
        ELSE IF found.kind = "notfound"
        THEN Outcome(Raise("User not found"), log3, NoRequest, users)
        ELSE IF senderEmail = None /\ a.attendees.given /\ a.attendees.list # <<>>
        THEN Outcome(Raise("AttributeError"), log3, NoRequest, users)  \* None.lower()
        ELSE LET event_data ==
                    [kind |-> "create_event",
                     user_id |-> found.id,
                     start |-> a.start_datetime,
                     end |-> a.end_datetime,
                     content |-> MeetingBody(sender_user.name, senderEmail, a.body),
                     attendees |-> AttendeesList(senderEmail, a.attendees)]
             IN  IF FailsAt(log4, fail) THEN Outcome(HttpError, log4, event_data, users)
                 ELSE Outcome(Returned("booked", sender_user), log4, event_data, users)

\* book_meeting(user_email, subject, start_datetime, end_datetime, sender_name, attendees, body)
BookMeeting(a, dir, fail) ==
    IF ~a.start_datetime.ok \/ ~a.end_datetime.ok
    THEN Outcome(Raise("Invalid datetime format"), <<>>, NoRequest, <<>>)
    ELSE IF a.start_datetime.aware # a.end_datetime.aware
    THEN Outcome(Raise("TypeError"), <<>>, NoRequest, <<>>)   \* naive against aware
    ELSE IF EndNotAfterStart(a.start_datetime, a.end_datetime)
    THEN Outcome(Raise("End time must be after start time"), <<>>, NoRequest, <<>>)
    ELSE LET log1 == <<"token">>
             log2 == <<"token", "users">>
             users == FetchUsers(dir)
             sender == ResolveSender(a.sender_name, users)
         IN  IF FailsAt(log1, fail) THEN Outcome(HttpError, log1, NoRequest, <<>>)
             ELSE IF FailsAt(log2, fail) THEN Outcome(HttpError, log2, NoRequest, <<>>)
             ELSE IF sender.kind = "crash"
             THEN Outcome(Raise("AttributeError"), log2, NoRequest, users)
             ELSE IF sender.kind = "notfound"
             THEN Outcome(RaiseWith("Sender not found", ExampleNames(users)),
                          log2, NoRequest, users)
             ELSE IF HasAt(a.user_email)
             THEN CreateEvent(a, dir, fail, log2, users, users[sender.idx], a.user_email)
             ELSE LET target == ResolveTarget(a.user_email, users)
                  IN  IF target.kind = "crash"
                      THEN Outcome(Raise("AttributeError"), log2, NoRequest, users)
                      ELSE IF target.kind = "notfound"
                      THEN Outcome(RaiseWith("User not found by name", ExampleNames(users)),
                                   log2, NoRequest, users)
                      ELSE CreateEvent(a, dir, fail, log2, users, users[sender.idx],
                                       users[target.idx].email)

book_meeting ==
    /\ pc = "idle"
    /\ \E user_email \in BookTargets, times \in DateTimePairs, sender \in BookSenders,
          attendees \in AttendeeLists, body \in Bodies, fail \in 0..MaxCalendarCalls :
         LET a == [tool |-> "book_meeting", user_email |-> user_email,
                   start_datetime |-> times[1], end_datetime |-> times[2],
                   sender_name |-> sender, attendees |-> attendees, body |-> body]
             out == BookMeeting(a, directory, fail)
         IN  /\ args' = a
             /\ result' = out.result
             /\ calls' = out.calls
             /\ request' = out.request
             /\ users_list' = out.users
    /\ op' = "book_meeting"
    /\ pc' = "done"
    /\ UNCHANGED <<query_name, sender_name, sender_email, response, aiCalls,
                   azure_openai_client, directory, extract_response, webhook, credentials>>

(* ------------------------ time-entry extraction ------------------------ *)

\* JSON values of the backend's answer, tagged with their kind; "absent" is
\* a key that the object does not have
JAbsent == [kind |-> "absent", val |-> 0]

JNull == [kind |-> "null", val |-> 0]

JStr(s) == [kind |-> "str", val |-> s]

JNum(n) == [kind |-> "num", val |-> n]

\* result.get(key): None when the key is missing
Get(v) == IF v.kind = "absent" THEN JNull ELSE v

\* Python `not v` for None, a str and a number
Falsy(v) ==
    \/ v.kind = "null"
    \/ (v.kind = "str" /\ v.val = <<>>)
    \/ (v.kind = "num" /\ v.val = 0)

\* `v is None`
IsNone(v) == v.kind = "null"

\* values the backend may put under date, client and description
TextValues == {JAbsent, JNull, JStr(<<>>), JStr(<<" ">>), JStr(<<"a">>), JNum(0)}

\* values the backend may put under hours
HoursValues == {JAbsent, JNull, JNum(0), JNum(8), JStr(<<>>)}

\* values the backend may put under project and task
OptionalValues == {JAbsent, JStr(<<"b">>)}

RequiredFields == <<"date", "client", "description", "hours">>

\* the missing_fields list the backend reports itself
ReportedLists ==
    {[given |-> FALSE, list |-> <<>>], [given |-> TRUE, list |-> <<>>],
     [given |-> TRUE, list |-> <<"hours">>], [given |-> TRUE, list |-> RequiredFields]}

EmptyObject ==
    [kind |-> "text", exc |-> "none", fence |-> "none", body |-> "object",
     date |-> JAbsent, client |-> JAbsent, description |-> JAbsent, hours |-> JAbsent,
     project |-> JAbsent, task |-> JAbsent, reported |-> [given |-> FALSE, list |-> <<>>]]

\* answers to the extraction prompt
ExtractResponses ==
    {[EmptyObject EXCEPT !.kind = "error", !.exc = "Exception"],
     [EmptyObject EXCEPT !.kind = "nocontent"]}
        \cup {[EmptyObject EXCEPT !.fence = f, !.body = b] :
                f \in Fences, b \in {"invalid", "array"}}
        \cup {[EmptyObject EXCEPT !.fence = f, !.date = d, !.client = c,
                                  !.description = x, !.hours = h, !.project = p,
                                  !.task = t, !.reported = m] :
                f \in {"none", "json"}, d \in TextValues, c \in TextValues,
                x \in TextValues, h \in HoursValues, p \in OptionalValues,
                t \in OptionalValues, m \in ReportedLists}

ExtractQueries == {None, <<>>, <<" ">>, <<"a">>, <<"a", " ", "b">>}

\* `extracted = {...}`: every expected key, None for the ones the answer lacks
ExtractedFields(r) ==
    [kind |-> "extracted", date |-> Get(r.date), client |-> Get(r.client),
     description |-> Get(r.description), hours |-> Get(r.hours),
     project |-> Get(r.project), task |-> Get(r.task),
     missing_fields |-> r.reported.list]

\* variant: the list the backend reported is kept
Missing_Reported(e) == e.missing_fields

\* `missing`: the required fields without a value, in the order tested
Missing(e) ==
    (IF Falsy(e.date) THEN <<"date">> ELSE <<>>)
        \o (IF Falsy(e.client) THEN <<"client">> ELSE <<>>)
        \o (IF Falsy(e.description) THEN <<"description">> ELSE <<>>)
        \o (IF IsNone(e.hours) THEN <<"hours">> ELSE <<>>)

\* the record returned after a successful parse
Extracted(r) ==
    LET e == ExtractedFields(r) IN [e EXCEPT !.missing_fields = Missing(e)]

\* the record returned for a blank query
AllMissing ==
    [kind |-> "extracted", date |-> JNull, client |-> JNull, description |-> JNull,
     hours |-> JNull, project |-> JNull, task |-> JNull,
     missing_fields |-> RequiredFields]

\* `not query or not query.strip()`
QueryMissing(query) == query = None \/ ~Truthy(query) \/ ~Truthy(Strip(query))

\* validate_and_extract_time_entry returns before the try block
HelperExtractBeforeBackend(query) ==
    IF QueryMissing(query)
    THEN [ask |-> FALSE, result |-> AllMissing]
    ELSE [ask |-> TRUE, result |-> Pending]

\* the try block of validate_and_extract_time_entry; the ValueError of the
\* inner JSONDecodeError handler is caught and wrapped by the outer handler
HelperExtractAfterBackend(r) ==
    IF r.kind = "error"
    THEN Raise("Failed to extract time entry information")
    ELSE IF r.kind = "nocontent"
    THEN Raise("Failed to extract time entry information")   \* None.strip()
    ELSE IF ParseJson(r) = "JSONDecodeError"
    THEN Raise("Failed to extract time entry information")
    ELSE IF ParseJson(r) # "object"
    THEN Raise("Failed to extract time entry information")   \* result.get
    ELSE Extracted(r)

validate_and_extract_time_entry ==
    /\ pc = "idle"
    /\ \E query \in ExtractQueries :
         LET pre == HelperExtractBeforeBackend(query)
         IN  /\ args' = [tool |-> "validate_and_extract_time_entry", query |-> query]
             /\ IF pre.ask
                THEN \E r \in ExtractResponses :
                        /\ extract_response' = r
                        /\ aiCalls' = 1
                        /\ result' = HelperExtractAfterBackend(r)
                ELSE /\ extract_response' = NoExtraction
                     /\ aiCalls' = 0
                     /\ result' = pre.result
    /\ op' = "validate_and_extract_time_entry"
    /\ pc' = "done"
    /\ UNCHANGED <<users_list, query_name, sender_name, sender_email, response,
                   azure_openai_client, directory, calls, request, webhook, credentials>>

\* ai_extract_time_entry returns or raises before the try block
ServerExtractBeforeBackend(query, client) ==
    IF ~client
    THEN [ask |-> FALSE, result |-> Raise("Azure OpenAI not configured")]
    ELSE IF QueryMissing(query)
    THEN [ask |-> FALSE, result |-> AllMissing]
    ELSE [ask |-> TRUE, result |-> Pending]

\* the try block of ai_extract_time_entry
ServerExtractAfterBackend(r) ==
    IF r.kind = "error"
    THEN Raise("Failed to extract time entry information")
    ELSE IF r.kind = "nocontent"
    THEN Raise("Failed to extract time entry information")   \* None.strip()
    ELSE IF ParseJson(r) = "JSONDecodeError"
    THEN Raise("Failed to extract time entry information")
    ELSE IF ParseJson(r) # "object"
    THEN Raise("Failed to extract time entry information")   \* result.get
    ELSE Extracted(r)

ai_extract_time_entry ==
    /\ pc = "idle"
    /\ \E query \in ExtractQueries :
         LET pre == ServerExtractBeforeBackend(query, azure_openai_client)
         IN  /\ args' = [tool |-> "ai_extract_time_entry", query |-> query]
             /\ IF pre.ask
                THEN \E r \in ExtractResponses :
                        /\ extract_response' = r
                        /\ aiCalls' = 1
                        /\ result' = ServerExtractAfterBackend(r)
                ELSE /\ extract_response' = NoExtraction
                     /\ aiCalls' = 0
                     /\ result' = pre.result
    /\ op' = "ai_extract_time_entry"
    /\ pc' = "done"
    /\ UNCHANGED <<users_list, query_name, sender_name, sender_email, response,
                   azure_openai_client, directory, calls, request, webhook, credentials>>

(* --------------------------- sanitize_unicode --------------------------- *)

\* nesting depth and number of items of the values passed to sanitize_unicode
MaxDepth == 2

MaxItems == 2

JList(items) == [kind |-> "list", val |-> items]

JTuple(items) == [kind |-> "tuple", val |-> items]

\* a dict: its items in insertion order, the keys pairwise different
JDict(items) == [kind |-> "dict", val |-> items]

\* str, number and None values without a container
Leaves ==
    {JStr(<<>>), JStr(<<"a">>), JStr(<<"U+0100">>), JStr(<<"a", "U+0101">>),
     JNum(1), JNull}

\* dict keys
Keys == {JStr(<<"a">>), JStr(<<"?">>), JStr(<<"U+0100">>), JStr(<<"U+0101">>), JNum(1)}

\* the dicts with up to n items whose values are in S
Dicts(S, n) ==
    {JDict(d) : d \in {q \in SeqsUpTo([k : Keys, v : S], n) :
                          \A i, j \in 1..Len(q) : q[i].k = q[j].k => i = j}}

\* the lists, tuples and dicts with up to n items from S
Containers(S, n) ==
    {JList(q) : q \in SeqsUpTo(S, n)} \cup {JTuple(q) : q \in SeqsUpTo(S, n)}
        \cup Dicts(S, n)

\* values nested up to depth d; above depth 1 a container holds one item
RECURSIVE Nested(_)
Nested(d) ==
    IF d = 0 THEN Leaves
    ELSE IF d = 1 THEN Leaves \cup Containers(Leaves, MaxItems)
    ELSE Nested(d - 1) \cup Containers(Nested(d - 1), 1)

\* d[k] = v on a dict under construction: an existing key keeps its place
\* and takes the new value
RECURSIVE DictPut(_, _, _)
DictPut(items, k, v) ==
    IF items = <<>> THEN <<[k |-> k, v |-> v]>>
    ELSE IF Head(items).k = k THEN <<[k |-> k, v |-> v]>> \o Tail(items)
    ELSE <<Head(items)>> \o DictPut(Tail(items), k, v)

\* the dict built from the (key, value) pairs in order
RECURSIVE DictBuild(_)
DictBuild(pairs) ==
    IF pairs = <<>> THEN <<>>
    ELSE LET last == pairs[Len(pairs)]
         IN  DictPut(DictBuild(SubSeq(pairs, 1, Len(pairs) - 1)), last.k, last.v)

\* sanitize_unicode(value)
RECURSIVE SanitizeValue(_)
SanitizeValue(value) ==
    IF value.kind = "str"
    THEN JStr([i \in 1..Len(value.val) |-> SanitizeChar(value.val[i])])
    ELSE IF value.kind = "dict"
    THEN JDict(DictBuild([i \in 1..Len(value.val) |->
                            [k |-> SanitizeValue(value.val[i].k),
                             v |-> SanitizeValue(value.val[i].v)]]))
    ELSE IF value.kind = "list"
    THEN JList([i \in 1..Len(value.val) |-> SanitizeValue(value.val[i])])
    ELSE IF value.kind = "tuple"
    THEN JTuple([i \in 1..Len(value.val) |-> SanitizeValue(value.val[i])])
    ELSE value

sanitize_unicode ==
    /\ pc = "idle"
    /\ \E value \in Nested(MaxDepth) :
          /\ args' = [tool |-> "sanitize_unicode", value |-> value]
          /\ result' = [kind |-> "sanitized", value |-> SanitizeValue(value)]
    /\ op' = "sanitize_unicode"
    /\ pc' = "done"
    /\ UNCHANGED <<users_list, query_name, sender_name, sender_email, response, aiCalls,
                   azure_openai_client, directory, calls, request, extract_response,
                   webhook, credentials>>

(* --------------------------- process_time_entry ------------------------- *)

\* values of the N8N_TIMEENTRY_WEBHOOK environment variable: unset, blank,
\* a URL of another scheme, an http URL with surrounding whitespace
WebhookEnvs ==
    {None, <<" ">>, <<"f", "t", "p">>, <<" ", "h", "t", "t", "p", ":", " ">>}

\* N8N_TIMEENTRY_WEBHOOK as the module leaves it: stripped when it is set
N8N_TIMEENTRY_WEBHOOK(env) == IF Truthy(env) THEN Strip(env) ELSE env

StartsWith(s, prefix) ==
    Len(s) >= Len(prefix) /\ SubSeq(s, 1, Len(prefix)) = prefix

\* variant: any value that is set passes
WebhookInvalid_SetIsEnough(env) == ~Truthy(N8N_TIMEENTRY_WEBHOOK(env))

\* `not N8N_TIMEENTRY_WEBHOOK or not N8N_TIMEENTRY_WEBHOOK.startswith('http')`
WebhookInvalid(env) ==
    \/ ~Truthy(N8N_TIMEENTRY_WEBHOOK(env))
    \/ ~StartsWith(N8N_TIMEENTRY_WEBHOOK(env), <<"h", "t", "t", "p">>)

\* userName: blank, a name, emails of the directory in another case and with
\* whitespace, an email the directory does not hold
UserNames ==
    {<<>>, <<"a", "b">>, <<"a", "@">>, <<" ", "A", "@", " ">>, <<"b", "a", "@">>}

ProcessQueries == {<<>>, <<"a">>}

\* the longest sequence of HTTP calls of process_time_entry
MaxTimeEntryCalls == 3

\* the answers to the name-matching prompt drawn for process_time_entry
ProcessMatchResponses ==
    {r \in MatchResponses :
        \/ r.kind = "error" /\ r.exc = "Exception"
        \/ r.kind = "text" /\ r.body = "invalid" /\ r.fence = "none"
        \/ /\ r.kind = "text" /\ r.body = "object" /\ r.fence = "none"
           /\ r.match \in {"null", "value"}
           /\ r.conf.t = "num" /\ r.conf.n \in {min_confidence_name - 1, min_confidence_name}
           /\ \/ r.name = None /\ r.email = None
              \/ r.name = <<"a", "b">> /\ r.email = <<"a">>}

\* the answers to the extraction prompt drawn for process_time_entry
ProcessExtractResponses ==
    {r \in ExtractResponses :
        \/ r.kind = "error"
        \/ r.kind = "text" /\ r.body = "invalid" /\ r.fence = "none"
        \/ /\ r.kind = "text" /\ r.body = "object" /\ r.fence = "none"
           /\ r.date \in {JStr(<<"a">>), JNull}
           /\ r.client \in {JStr(<<"a">>), JStr(<<>>)}
           /\ r.description = JStr(<<"a">>)
           /\ r.hours \in {JNum(8), JNum(0), JNull}
           /\ r.task = JAbsent
           /\ r.reported \in {[given |-> FALSE, list |-> <<>>],
                              [given |-> TRUE, list |-> RequiredFields]}}

\* variant: the loop does not stop at the first user with the email
EmailLookup_LastHit(userName, users) ==
    LET hits == {i \in 1..Len(users) :
                    Strip(Lower(OrEmpty(users[i].email))) = Strip(Lower(userName))}
    IN  IF hits = {} THEN 0 ELSE SetMax(hits)

\* the '@' branch: the first user whose email equals userName after
\* lower().strip(), 0 when there is none
EmailLookup(userName, users) ==
    LET hits == {i \in 1..Len(users) :
                    Strip(Lower(OrEmpty(users[i].email))) = Strip(Lower(userName))}
    IN  IF hits = {} THEN 0 ELSE SetMin(hits)

\* the name branch asks the backend
MatchAsks(userName, users, client) ==
    ~HasAt(userName) /\ ServerMatchBeforeBackend(userName, users, client).ask

\* step 1 of process_time_entry: validated_user, or the error raised
ResolveUserName(userName, users, client, r) ==
    IF HasAt(userName)
    THEN IF EmailLookup(userName, users) = 0
         THEN RaiseWith("User email not found",
                        Take(SelectTruthy([i \in 1..Len(Take(users, 5)) |-> users[i].email]), 3))
         ELSE ReturnUser(users[EmailLookup(userName, users)])
    ELSE LET pre == ServerMatchBeforeBackend(userName, users, client)
             matched == IF pre.ask THEN ServerMatchAfterBackend(r) ELSE pre.result
         IN  IF matched.kind = "none"
             THEN IF \E i \in 1..Len(ExampleNames(users)) : ExampleNames(users)[i] = None
                  THEN Raise("TypeError")                  \* ', '.join of a None name
                  ELSE RaiseWith("User not found or ambiguous", ExampleNames(users))
             ELSE matched

\* ', '.join(missing_fields)
RECURSIVE JoinComma(_)
JoinComma(list) ==
    IF list = <<>> THEN <<>>
    ELSE IF Len(list) = 1 THEN list
    ELSE <<Head(list), ", ">> \o JoinComma(Tail(list))

\* variant: the message names every required field
RaiseMissing_AllFields(missing_fields) ==
    [kind |-> "raise", user |-> NoUser,
     error |-> "Missing required fields in time entry query", examples |-> <<>>,
     missing_list |-> JoinComma(RequiredFields)]

\* the error of step 3, with the field names its message enumerates
RaiseMissing(missing_fields) ==
    [kind |-> "raise", user |-> NoUser,
     error |-> "Missing required fields in time entry query", examples |-> <<>>,
     missing_list |-> JoinComma(missing_fields)]

\* `extracted.get(key)` is truthy
Present(v) == ~Falsy(v)

\* the JSON body of the POST
Payload(u, query, extracted) ==
    [kind |-> "post", userName |-> u.name, query |-> query,
     project |-> IF Present(extracted.project) THEN extracted.project ELSE JAbsent,
     task |-> IF Present(extracted.task) THEN extracted.task ELSE JAbsent]

\* the dict returned by process_time_entry
Success(u, extracted) ==
    [kind |-> "success",
     user |-> [name |-> SanitizeStr(u.name), email |-> SanitizeStr(u.email)],
     error |-> "none", examples |-> <<>>,
     extracted_fields |-> [date |-> SanitizeValue(extracted.date),
                           client |-> SanitizeValue(extracted.client),
                           description |-> SanitizeValue(extracted.description),
                           hours |-> SanitizeValue(extracted.hours)]]

\* the webhook check and fetch_users_list; the result stays Pending when
\* the call goes on
FetchForTimeEntry(env, dir, fail) ==
    IF WebhookInvalid(env)
    THEN Outcome(Raise("Invalid N8N_TIMEENTRY_WEBHOOK"), <<>>, NoRequest, <<>>)
    ELSE IF FailsAt(<<"token">>, fail)
    THEN Outcome(HttpError, <<"token">>, NoRequest, <<>>)
    ELSE IF FailsAt(<<"token", "users">>, fail)
    THEN Outcome(HttpError, <<"token", "users">>, NoRequest, <<>>)
    ELSE Outcome(Pending, <<"token", "users">>, NoRequest, FetchUsers(dir))

\* the extraction asks the backend
ExtractAsks(query, client) == ServerExtractBeforeBackend(query, client).ask

\* steps 2 to 5 of process_time_entry for the validated user u
SubmitEntry(u, query, client, r, fail, log0, users) ==
    LET pre == ServerExtractBeforeBackend(query, client)
        extracted == IF pre.ask THEN ServerExtractAfterBackend(r) ELSE pre.result
        log1 == Append(log0, "post")
    IN  IF extracted.kind = "raise"
        THEN Outcome(extracted, log0, NoRequest, users)
        ELSE IF extracted.missing_fields # <<>>
        THEN Outcome(RaiseMissing(extracted.missing_fields), log0, NoRequest, users)
        ELSE IF FailsAt(log1, fail)
        THEN Outcome(HttpError, log1, Payload(u, query, extracted), users)
        ELSE Outcome(Success(u, extracted), log1, Payload(u, query, extracted), users)

\* the call ends: what it leaves behind
Finish(out, r, e) ==
    /\ result' = out.result
    /\ calls' = out.calls
    /\ request' = out.request
    /\ users_list' = out.users
    /\ response' = r
    /\ extract_response' = e
    /\ aiCalls' = (IF r.kind = "nocall" THEN 0 ELSE 1) + (IF e.kind = "nocall" THEN 0 ELSE 1)

process_time_entry ==
    /\ pc = "idle"
    /\ \E userName \in UserNames, query \in ProcessQueries, fail \in 0..MaxTimeEntryCalls :
         LET fetched == FetchForTimeEntry(webhook, directory, fail)
             users == fetched.users
         IN  /\ args' = [tool |-> "process_time_entry", userName |-> userName, query |-> query]
             /\ IF fetched.result.kind # "pending"
                THEN Finish(fetched, NoResponse, NoExtraction)
                ELSE \E r \in (IF MatchAsks(userName, users, azure_openai_client)
                               THEN ProcessMatchResponses ELSE {NoResponse}) :
                       LET who == ResolveUserName(userName, users, azure_openai_client, r)
                       IN  IF who.kind # "user"
                           THEN Finish(Outcome(who, fetched.calls, NoRequest, users),
                                       r, NoExtraction)
                           ELSE \E e \in (IF ExtractAsks(query, azure_openai_client)
                                          THEN ProcessExtractResponses ELSE {NoExtraction}) :
                                  Finish(SubmitEntry(who.user, query, azure_openai_client, e,
                                                     fail, fetched.calls, users), r, e)
    /\ op' = "process_time_entry"
    /\ pc' = "done"
    /\ UNCHANGED <<query_name, sender_name, sender_email, azure_openai_client, directory,
                   webhook, credentials>>

(* ---------------------------- directory fetch --------------------------- *)

\* records the provider may answer with besides GraphUsers: a record without
\* displayName, without mail and userPrincipalName, with both null, with an
\* empty mail
ProviderUsers ==
    GraphUsers \cup
    { [id |-> 7, displayName |-> Absent,      mail |-> <<"a", "@">>, userPrincipalName |-> Absent],
      [id |-> 8, displayName |-> <<"b">>,     mail |-> None,         userPrincipalName |-> None],
      [id |-> 9, displayName |-> <<>>,        mail |-> Absent,       userPrincipalName |-> Absent],
      [id |-> 10, displayName |-> <<"a">>,    mail |-> <<>>,
       userPrincipalName |-> <<"b", "@">>] }

ProviderDirectories ==
    {d \in SeqsUpTo(ProviderUsers, MaxPool) : \A i, j \in 1..Len(d) : i # j => d[i] # d[j]}

\* the list a fetch returned
ReturnUsers(users) ==
    [kind |-> "users", user |-> NoUser, error |-> "none", examples |-> <<>>, users |-> users]

\* the token request, the /users request and the list built from its answer;
\* has_value: the answer has a 'value' key
FetchUsersList(dir, fail, has_value) ==
    IF FailsAt(<<"token">>, fail)
    THEN Outcome(HttpError, <<"token">>, NoRequest, <<>>)
    ELSE IF FailsAt(<<"token", "users">>, fail)
    THEN Outcome(HttpError, <<"token", "users">>, NoRequest, <<>>)
    ELSE LET users == IF has_value THEN FetchUsers(dir) ELSE <<>>
         IN  Outcome(ReturnUsers(users), <<"token", "users">>, NoRequest, users)

\* the longest sequence of HTTP calls of a directory fetch
MaxFetchCalls == 2

\* mcp_calendar_server._fetch_users_list
calendar_fetch_users_list ==
    /\ pc = "idle"
    /\ \E fail \in 0..MaxFetchCalls, has_value \in BOOLEAN :
         LET out == FetchUsersList(directory, fail, has_value)
         IN  /\ args' = [tool |-> "_fetch_users_list", has_value |-> has_value]
             /\ result' = out.result
             /\ calls' = out.calls
             /\ users_list' = out.users
    /\ op' = "_fetch_users_list"
    /\ pc' = "done"
    /\ UNCHANGED <<query_name, sender_name, sender_email, response, aiCalls,
                   azure_openai_client, directory, request, extract_response,
                   webhook, credentials>>

\* mcp_time_entry_server.fetch_users_list
fetch_users_list ==
    /\ pc = "idle"
    /\ \E fail \in 0..MaxFetchCalls, has_value \in BOOLEAN :
         LET out == FetchUsersList(directory, fail, has_value)
         IN  /\ args' = [tool |-> "fetch_users_list", has_value |-> has_value]
             /\ result' = out.result
             /\ calls' = out.calls
             /\ users_list' = out.users
    /\ op' = "fetch_users_list"
    /\ pc' = "done"
    /\ UNCHANGED <<query_name, sender_name, sender_email, response, aiCalls,
                   azure_openai_client, directory, request, extract_response,
                   webhook, credentials>>

(* --------------------------- get_calendar_view -------------------------- *)

\* the longest chain of calendar-view pages the provider answers with
MaxPages == 3

\* the events of one page (event ids)
PageEvents == {<<>>, <<1>>, <<2, 1>>}

\* chains of 1..MaxPages pages; page i carries the link to page i + 1, the
\* last page carries none (link 0)
PageChains ==
    {[i \in 1..Len(c) |-> [value |-> c[i], nextLink |-> IF i < Len(c) THEN i + 1 ELSE 0]] :
        c \in SeqsUpTo(PageEvents, MaxPages) \ {<<>>}}

\* the longest sequence of HTTP calls of get_calendar_view
MaxViewCalls == MaxPages + 3

\* variant: the events of a page replace the ones collected before
RECURSIVE FollowPages_KeepLastPage(_, _, _, _, _, _)
FollowPages_KeepLastPage(pages, url, all_events, asked, log, fail) ==
    LET log1 == Append(log, "calendar_view")
        page == pages[IF url = 0 THEN 1 ELSE url]
    IN  IF FailsAt(log1, fail)
        THEN [result |-> HttpError, calls |-> log1, asked |-> Append(asked, url)]
        ELSE IF page.nextLink = 0
        THEN [result |-> [kind |-> "events", user |-> NoUser, error |-> "none",
                          examples |-> <<>>, value |-> page.value],
              calls |-> log1, asked |-> Append(asked, url)]
        ELSE FollowPages_KeepLastPage(pages, page.nextLink, page.value,
                                      Append(asked, url), log1, fail)

\* the `while True` loop: request the page behind url (0: the first request,
\* made with params), collect its events, go on with its nextLink if any
RECURSIVE FollowPages(_, _, _, _, _, _)
FollowPages(pages, url, all_events, asked, log, fail) ==
    LET log1 == Append(log, "calendar_view")
        page == pages[IF url = 0 THEN 1 ELSE url]
    IN  IF FailsAt(log1, fail)
        THEN [result |-> HttpError, calls |-> log1, asked |-> Append(asked, url)]
        ELSE IF page.nextLink = 0
        THEN [result |-> [kind |-> "events", user |-> NoUser, error |-> "none",
                          examples |-> <<>>, value |-> all_events \o page.value],
              calls |-> log1, asked |-> Append(asked, url)]
        ELSE FollowPages(pages, page.nextLink, all_events \o page.value,
                         Append(asked, url), log1, fail)

\* get_calendar_view(user_email, ...): the token, the user id, the pages
CalendarView(user_email, dir, pages, fail) ==
    LET log1 == <<"token">>
        log2 == <<"token", "token">>
        log3 == <<"token", "token", "list_users">>
        found == get_user_id_by_email(dir, user_email)
        none == [kind |-> "pages", urls |-> <<>>]
    IN  IF FailsAt(log1, fail) THEN Outcome(HttpError, log1, none, <<>>)
        ELSE IF FailsAt(log2, fail) THEN Outcome(HttpError, log2, none, <<>>)
        ELSE IF FailsAt(log3, fail) THEN Outcome(HttpError, log3, none, <<>>)
        ELSE IF found.kind = "crash" THEN Outcome(Raise("AttributeError"), log3, none, <<>>)
        ELSE IF found.kind = "notfound" THEN Outcome(Raise("User not found"), log3, none, <<>>)
        ELSE LET out == FollowPages(pages, 0, <<>>, <<>>, log3, fail)
             IN  Outcome(out.result, out.calls, [kind |-> "pages", urls |-> out.asked], <<>>)

get_calendar_view ==
    /\ pc = "idle"
    /\ \E user_email \in {<<"a", "@">>, <<"b", "a", "@">>}, pages \in PageChains,
          fail \in 0..MaxViewCalls :
         LET out == CalendarView(user_email, directory, pages, fail)
         IN  /\ args' = [tool |-> "get_calendar_view", user_email |-> user_email,
                         pages |-> pages]
             /\ result' = out.result
             /\ calls' = out.calls
             /\ request' = out.request
    /\ op' = "get_calendar_view"
    /\ pc' = "done"
    /\ UNCHANGED <<users_list, query_name, sender_name, sender_email, response, aiCalls,
                   azure_openai_client, directory, extract_response, webhook, credentials>>

(* -------------------------- calculate_free_slots ------------------------ *)

\* a date-time string is the number of hours since 00:00 of the first date:
\* comparing two such strings compares these numbers
DateTimeAt(date, hour) == 24 * date + hour

\* s.split('T')[1].split('.')[0]: the time of day of a date-time string
TimeOfDay(t) == t % 24

\* the date-times of the provider's events: 08:00, 09:00, 12:00, 17:00 and
\* 18:00 of the date asked for, 01:00 of the day after
EventTimes == {DateTimeAt(0, h) : h \in {8, 9, 12, 17, 18}} \cup {DateTimeAt(1, 1)}

\* the events of the calendar view, each from its start to a later end
Meetings == {m \in [start : EventTimes, end : EventTimes] : m.start < m.end}

\* the longest list of busy times
MaxBusy == 2

BusyLists == SeqsUpTo(Meetings, MaxBusy)

\* calculate_duration: hours from start to end
calculate_duration(start, end) == end - start

FreeSlot(start, end, duration) ==
    [start |-> start, end |-> end, duration_hours |-> duration]

\* sorted(busy_times, key=start): a stable sort by start
RECURSIVE SortByStart(_)
SortByStart(busy) ==
    IF busy = <<>> THEN <<>>
    ELSE LET rest == SortByStart(SubSeq(busy, 1, Len(busy) - 1))
             x == busy[Len(busy)]
             k == Cardinality({i \in 1..Len(rest) : rest[i].start <= x.start})
         IN  SubSeq(rest, 1, k) \o <<x>> \o SubSeq(rest, k + 1, Len(rest))

\* the loop over consecutive meetings, from pair i on
RECURSIVE GapSlots(_, _)
GapSlots(sorted_busy, i) ==
    IF i > Len(sorted_busy) - 1 THEN <<>>
    ELSE LET current_end == sorted_busy[i].end
             next_start == sorted_busy[i + 1].start
             duration == calculate_duration(current_end, next_start)
         IN  (IF current_end < next_start /\ duration > 0
              THEN <<FreeSlot(current_end, next_start, duration)>>
              ELSE <<>>) \o GapSlots(sorted_busy, i + 1)

FreeSlots(busy_times, date) ==
    LET business_start == DateTimeAt(date, 9)
        business_end == DateTimeAt(date, 17)
        sorted_busy == SortByStart(busy_times)
        first == sorted_busy[1]
        last == sorted_busy[Len(sorted_busy)]
    IN  IF busy_times = <<>>
        THEN <<FreeSlot(business_start, business_end, 8)>>
        ELSE (IF TimeOfDay(first.start) > 9
              THEN <<FreeSlot(business_start, first.start,
                              calculate_duration(business_start, first.start))>>
              ELSE <<>>)
             \o GapSlots(sorted_busy, 1)
             \o (IF TimeOfDay(last.end) < 17
                 THEN <<FreeSlot(last.end, business_end,
                                 calculate_duration(last.end, business_end))>>
                 ELSE <<>>)

calculate_free_slots ==
    /\ pc = "idle"
    /\ \E busy_times \in BusyLists :
         /\ args' = [tool |-> "calculate_free_slots", busy_times |-> busy_times, date |-> 0]
         /\ result' = [kind |-> "free_slots", user |-> NoUser, error |-> "none",
                       examples |-> <<>>, value |-> FreeSlots(busy_times, 0)]
    /\ op' = "calculate_free_slots"
    /\ pc' = "done"
    /\ UNCHANGED <<users_list, query_name, sender_name, sender_email, response, aiCalls,
                   azure_openai_client, directory, calls, request, extract_response,
                   webhook, credentials>>

(* --------------------------- specifications ---------------------------- *)

Init ==
    /\ users_list \in Pools
    /\ pc = "idle"
    /\ op = "none"
    /\ query_name = None
    /\ sender_name = None
    /\ sender_email = None
    /\ response = NoResponse
    /\ aiCalls = 0
    /\ result = Pending
    /\ azure_openai_client \in BOOLEAN
    /\ directory = <<>>
    /\ args = NoArgs
    /\ calls = <<>>
    /\ request = NoRequest
    /\ extract_response = NoExtraction
    /\ webhook = None
    /\ credentials = CredentialsOf(azure_openai_client)

NextSender == validate_sender

SpecSender == Init /\ [][NextSender]_vars

NextResolver == match_user_name \/ ai_match_user_name

SpecResolver == Init /\ [][NextResolver]_vars

\* a tool call of the calendar server: the directory is what the provider holds
InitCalendar ==
    /\ directory \in Directories
    /\ users_list = <<>>
    /\ pc = "idle"
    /\ op = "none"
    /\ query_name = None
    /\ sender_name = None
    /\ sender_email = None
    /\ response = NoResponse
    /\ aiCalls = 0
    /\ result = Pending
    /\ azure_openai_client = FALSE
    /\ args = NoArgs
    /\ calls = <<>>
    /\ request = NoRequest
    /\ extract_response = NoExtraction
    /\ webhook = None
    /\ credentials = CredentialsOf(azure_openai_client)

NextCalendar == check_availability \/ book_meeting

SpecCalendar == InitCalendar /\ [][NextCalendar]_vars

NextBooking == book_meeting

SpecBooking == InitCalendar /\ [][NextBooking]_vars

\* a call of sanitize_unicode
InitSanitize ==
    /\ azure_openai_client = FALSE
    /\ users_list = <<>>
    /\ directory = <<>>
    /\ pc = "idle"
    /\ op = "none"
    /\ query_name = None
    /\ sender_name = None
    /\ sender_email = None
    /\ response = NoResponse
    /\ aiCalls = 0
    /\ result = Pending
    /\ args = NoArgs
    /\ calls = <<>>
    /\ request = NoRequest
    /\ extract_response = NoExtraction
    /\ webhook = None
    /\ credentials = CredentialsOf(azure_openai_client)

NextSanitize == sanitize_unicode

SpecSanitize == InitSanitize /\ [][NextSanitize]_vars

\* a call of process_time_entry: the directory the provider holds and the
\* configuration the module was loaded with
InitTimeEntry ==
    /\ directory \in Directories
    /\ azure_openai_client \in BOOLEAN
    /\ webhook \in WebhookEnvs
    /\ credentials = CredentialsOf(azure_openai_client)
    /\ users_list = <<>>
    /\ pc = "idle"
    /\ op = "none"
    /\ query_name = None
    /\ sender_name = None
    /\ sender_email = None
    /\ response = NoResponse
    /\ aiCalls = 0
    /\ result = Pending
    /\ args = NoArgs
    /\ calls = <<>>
    /\ request = NoRequest
    /\ extract_response = NoExtraction

NextTimeEntry == process_time_entry

SpecTimeEntry == InitTimeEntry /\ [][NextTimeEntry]_vars

\* a call of calculate_free_slots on any list of busy times
NextFreeSlots == calculate_free_slots

SpecFreeSlots == InitSanitize /\ [][NextFreeSlots]_vars

NextCalendarView == get_calendar_view

SpecCalendarView == InitCalendar /\ [][NextCalendarView]_vars

\* a directory fetch against any answer of the provider
InitDirectory ==
    /\ directory \in ProviderDirectories
    /\ azure_openai_client = FALSE
    /\ users_list = <<>>
    /\ pc = "idle"
    /\ op = "none"
    /\ query_name = None
    /\ sender_name = None
    /\ sender_email = None
    /\ response = NoResponse
    /\ aiCalls = 0
    /\ result = Pending
    /\ args = NoArgs
    /\ calls = <<>>
    /\ request = NoRequest
    /\ extract_response = NoExtraction
    /\ webhook = None
    /\ credentials = NoCredentials

NextDirectory == calendar_fetch_users_list \/ fetch_users_list

SpecDirectory == InitDirectory /\ [][NextDirectory]_vars

\* the directories and pools the time-entry server is loaded against
ServerDirectories ==
    {d \in Directories : d = <<>> \/ (Len(d) = 2 /\ d[1].id = 1 /\ d[2].id = 2)}

ServerPools ==
    {p \in Pools : p = <<>> \/ (Len(p) = 1 /\ p[1].name = <<"a", "b">>)}

\* the time-entry server after loading: the client is built from the
\* environment, which may lack any of the three variables
InitServer ==
    /\ credentials \in CredentialSets
    /\ azure_openai_client \in {LoadClient(credentials, built) : built \in BOOLEAN}
    /\ directory \in ServerDirectories
    /\ users_list \in ServerPools
    /\ webhook = <<" ", "h", "t", "t", "p", ":", " ">>
    /\ pc = "idle"
    /\ op = "none"
    /\ query_name = None
    /\ sender_name = None
    /\ sender_email = None
    /\ response = NoResponse
    /\ aiCalls = 0
    /\ result = Pending
    /\ args = NoArgs
    /\ calls = <<>>
    /\ request = NoRequest
    /\ extract_response = NoExtraction

NextServer ==
    \/ fetch_users_list
    \/ ai_match_user_name
    \/ ai_extract_time_entry
    \/ process_time_entry

SpecServer == InitServer /\ [][NextServer]_vars

\* a call of one of the two extraction functions
InitExtract ==
    /\ azure_openai_client \in BOOLEAN
    /\ users_list = <<>>
    /\ directory = <<>>
    /\ pc = "idle"
    /\ op = "none"
    /\ query_name = None
    /\ sender_name = None
    /\ sender_email = None
    /\ response = NoResponse
    /\ aiCalls = 0
    /\ result = Pending
    /\ args = NoArgs
    /\ calls = <<>>
    /\ request = NoRequest
    /\ extract_response = NoExtraction
    /\ webhook = None
    /\ credentials = CredentialsOf(azure_openai_client)

NextExtract == validate_and_extract_time_entry \/ ai_extract_time_entry

SpecExtract == InitExtract /\ [][NextExtract]_vars

(* ------------------------------- claims -------------------------------- *)

ResolverDone == pc = "done" /\ op \in {"match_user_name", "ai_match_user_name"}

SenderDone == pc = "done" /\ op = "validate_sender"

\* C1: the AI name resolver never returns a matched identity when the
\* backend reports a confidence <= 0.9; confidence exactly 0.9 is rejected.
C1_NoMatchAtOrBelowThreshold ==
    (ResolverDone /\ response.kind = "text" /\ response.conf.t = "num"
        /\ response.conf.n <= min_confidence_name)
    => result.kind # "user"

\* C2: a response in the instructed shape {"name", "email", "confidence"}
\* with confidence strictly above 0.9 makes the AI name resolver return the
\* identity named by the response.
C2_InstructedShapeAccepted ==
    (ResolverDone /\ aiCalls = 1 /\ response.kind = "text"
        /\ response.fence # "other" /\ response.body = "object"
        /\ response.match = "absent"
        /\ response.name # None /\ response.email # None
        /\ response.conf.t = "num" /\ response.conf.n > min_confidence_name)
    => result = ReturnUser([name |-> response.name, email |-> response.email])

\* C3: with the email found and a name supplied, a parsed response with a
\* boolean "valid" and a numeric confidence yields a validated sender iff
\* valid is true and the confidence is strictly above 0.95; otherwise a
\* validation error (so confidence exactly 0.95 is rejected).
C3_SenderStrictThreshold ==
    (SenderDone /\ aiCalls = 1 /\ response.kind = "text"
        /\ response.fence # "other" /\ response.body = "object"
        /\ response.valid \in {"true", "false"} /\ response.conf.t = "num")
    => IF response.valid = "true" /\ response.conf.n > min_confidence_sender
       THEN result.kind = "user"
       ELSE result.kind = "raise" /\ result.error = "Sender validation failed"

\* C4: validate_sender with an absent, empty or whitespace-only
\* sender_email fails with the "sender_email is REQUIRED" error for every
\* name and pool, and issues no backend call.
C4_BlankEmailFails ==
    (SenderDone /\ (sender_email = None \/ \A i \in 1..Len(sender_email) : sender_email[i] = " "))
    => /\ result.kind = "raise"
       /\ result.error = "sender_email is REQUIRED"
       /\ aiCalls = 0
       /\ response = NoResponse

C4_Witness ==
    /\ SenderDone
    /\ sender_email = <<" ", " ">>
    /\ sender_name = <<"a">>
    /\ \E i \in 1..Len(users_list) : users_list[i].email = None
    /\ result.kind = "raise"

\* C5: for a non-blank sender_email, the email is found iff some pool
\* entry's email equals it after lowercasing and trimming both; when it is
\* not found the call fails with the not-found error, lists only emails of
\* the pool as examples, and issues no backend call.
C5_EmailScan ==
    (SenderDone /\ sender_email # None /\ \E i \in 1..Len(sender_email) : sender_email[i] # " ")
    => LET inPool == \E i \in 1..Len(users_list) :
                        /\ users_list[i].email # None
                        /\ Strip(Lower(users_list[i].email)) = Strip(Lower(sender_email))
       IN  IF inPool
           THEN ~(result.kind = "raise" /\ result.error = "Sender email not found")
           ELSE /\ result.kind = "raise"
                /\ result.error = "Sender email not found"
                /\ aiCalls = 0
                /\ response = NoResponse
                /\ \A k \in 1..Len(result.examples) :
                      \E i \in 1..Len(users_list) : users_list[i].email = result.examples[k]

C5_Witness ==
    /\ SenderDone
    /\ result.kind = "raise"
    /\ result.error = "Sender email not found"
    /\ Len(result.examples) = 2
    /\ sender_name = <<"a">>

\* C6: when sender_email is found in the pool and sender_name is absent or
\* blank, validate_sender returns the first pool entry whose email matches
\* and issues no backend call.
C6_NoNameReturnsEmailMatch ==
    (SenderDone
        /\ (sender_name = None \/ \A i \in 1..Len(sender_name) : sender_name[i] = " ")
        /\ sender_email # None
        /\ \E i \in 1..Len(users_list) :
              /\ users_list[i].email # None
              /\ Strip(Lower(users_list[i].email)) = Strip(Lower(sender_email)))
    => /\ aiCalls = 0
       /\ response = NoResponse
       /\ result.kind = "user"
       /\ \E i \in 1..Len(users_list) :
             /\ result.user = users_list[i]
             /\ Strip(Lower(users_list[i].email)) = Strip(Lower(sender_email))
             /\ \A j \in 1..(i - 1) :
                   \/ users_list[j].email = None
                   \/ Strip(Lower(users_list[j].email)) # Strip(Lower(sender_email))

C6_Witness ==
    /\ SenderDone
    /\ sender_name = <<" ">>
    /\ sender_email = <<" ", "a">>
    /\ Len(users_list) = 2
    /\ users_list[1].email = <<"A", " ">>
    /\ users_list[2].email = <<"a">>
    /\ result = ReturnUser(users_list[1])

\* C7: with the email found and a name supplied, every failure of the
\* name-consistency protocol (the backend call raising any error, a missing
\* or unparseable response) returns the email-matched pool entry, and only a
\* parsed response that fails the valid/confidence test raises.
C7_SenderDegradesGracefully ==
    (SenderDone /\ aiCalls = 1)
    => /\ (response.kind \in {"error", "nocontent"}
            \/ (response.kind = "text"
                   /\ (response.fence = "other" \/ response.body = "invalid")))
          => /\ result.kind = "user"
             /\ \E i \in 1..Len(users_list) : result.user = users_list[i]
       /\ result.kind = "raise"
          => /\ response.kind = "text"
             /\ response.fence # "other"
             /\ response.body = "object"

\* C8: when the backend call of the AI name resolver fails, or its output
\* is not parseable as a JSON object, the resolver raises: it returns
\* neither None nor an identity.
C8_ResolverFailsHard ==
    (ResolverDone /\ aiCalls = 1
        /\ (response.kind \in {"error", "nocontent"}
              \/ (response.kind = "text"
                     /\ (response.fence = "other" \/ response.body # "object"))))
    => result.kind = "raise"

C8_Witness ==
    /\ pc = "done"
    /\ op = "match_user_name"
    /\ aiCalls = 1
    /\ response.kind = "text"
    /\ response.fence = "json"
    /\ response.body = "invalid"
    /\ result.kind = "raise"

\* C9: every identity returned by validate_sender carries the email that
\* passed the email-existence check: it equals sender_email, and an email
\* of the pool, after lowercasing and trimming.
C9_ReturnedEmailIsChecked ==
    (SenderDone /\ result.kind = "user")
    => /\ result.user.email # None
       /\ Strip(Lower(result.user.email)) = Strip(Lower(sender_email))
       /\ \E i \in 1..Len(users_list) :
             /\ users_list[i].email # None
             /\ Strip(Lower(users_list[i].email)) = Strip(Lower(result.user.email))

\* C10: whenever the AI name resolver returns a match, the returned
\* name/email pair is an element of the users_list it was given.
C10_MatchIsFromPool ==
    (ResolverDone /\ result.kind = "user")
    => \E i \in 1..Len(users_list) : users_list[i] = result.user

BookingDone == pc = "done" /\ op = "book_meeting"

AvailabilityDone == pc = "done" /\ op = "check_availability"

\* C11: book_meeting sends the event-creation write only for a sender that
\* passed sender validation: a sender email was supplied and found in the
\* directory and, when a name was supplied, the name-consistency check ran.
C11_WriteOnlyAfterSenderValidation ==
    (BookingDone /\ request.kind = "create_event")
    => /\ sender_email # None
       /\ \E i \in 1..Len(users_list) :
             Strip(Lower(users_list[i].email)) = Strip(Lower(sender_email))
       /\ (\E i \in 1..Len(args.sender_name) : args.sender_name[i] # " ") => aiCalls > 0

\* the other letter case of a character
FlipCase(c) == IF c = "a" THEN "A" ELSE IF c = "A" THEN "a" ELSE c

\* queries that differ from q in the case of one letter, in leading or
\* trailing whitespace, or in the length of one whitespace run
Variants(q) ==
    {<<" ">> \o q, q \o <<" ">>}
        \cup {[q EXCEPT ![i] = FlipCase(q[i])] : i \in 1..Len(q)}
        \cup {SubSeq(q, 1, i) \o <<" ">> \o SubSeq(q, i + 1, Len(q)) :
                i \in {j \in 1..Len(q) : q[j] = " "}}

\* C12: a name query and every query that differs from it only in letter
\* case, leading/trailing whitespace or the length of a whitespace run get
\* the same outcome from the name lookup of check_availability and from both
\* lookups of book_meeting: the same identity, or rejection in both cases.
C12_NormalizationInvariance ==
    /\ (AvailabilityDone /\ ~HasAt(args.user_email))
       => \A v \in Variants(args.user_email) :
            LET r == ResolveByName(v, users_list)
            IN  /\ result.kind = "availability"
                   => r.kind = "found" /\ users_list[r.idx].email = result.user.email
                /\ (result.kind = "raise" /\ result.error = "User not found by name")
                   => r.kind = "notfound"
    /\ BookingDone
       => /\ \A v \in Variants(args.sender_name) :
               LET r == ResolveSender(v, users_list)
               IN  /\ result.kind = "booked"
                      => r.kind = "found" /\ users_list[r.idx] = result.user
                   /\ (result.kind = "raise" /\ result.error = "Sender not found")
                      => r.kind = "notfound"
          /\ ~HasAt(args.user_email)
             => \A v \in Variants(args.user_email) :
                  LET r == ResolveTarget(v, users_list)
                  IN  /\ result.kind = "booked"
                         => /\ r.kind = "found"
                            /\ get_user_id_by_email(directory, users_list[r.idx].email).id
                                  = request.user_id
                      /\ (result.kind = "raise" /\ result.error = "User not found by name")
                         => r.kind = "notfound"

C12_Witness ==
    /\ AvailabilityDone
    /\ args.user_email = <<"a", " ", "b">>
    /\ result.kind = "availability"
    /\ result.user.email = <<"a", "b", "@">>
    /\ Len(users_list) = 2

\* C13: when no pool name equals the query after normalization and two or
\* more pool names are substring matches, the lookup returns a candidate
\* whose normalized name is longest among the matches.
C13_LongestSubstringWins ==
    (AvailabilityDone /\ ~HasAt(args.user_email) /\ result.kind = "availability")
    => LET q == JoinSpace(Split(Strip(Lower(args.user_email))))
           norm(i) == JoinSpace(Split(Strip(Lower(users_list[i].name))))
           named == {i \in 1..Len(users_list) : users_list[i].name # None}
           exact == {i \in named : norm(i) = q}
           cands == {i \in named : IsSubstring(q, norm(i)) \/ IsSubstring(norm(i), q)}
       IN  (exact = {} /\ Cardinality(cands) >= 2)
           => \E w \in cands :
                 /\ users_list[w].email = result.user.email
                 /\ \A i \in cands : Len(norm(i)) <= Len(norm(w))

ExtractDone ==
    pc = "done" /\ op \in {"validate_and_extract_time_entry", "ai_extract_time_entry"}

\* the answer was parsed into an object and a record was returned
ExtractParsed == ExtractDone /\ aiCalls = 1 /\ result.kind = "extracted"

\* the value is null (or its key missing) or the empty string
EmptyOrNull(v) == v.kind \in {"absent", "null"} \/ (v.kind = "str" /\ v.val = <<>>)

\* the value is null, the empty string or the number zero (what Python's
\* `not` takes for false among the values of the bound)
NoValue(v) == EmptyOrNull(v) \/ (v.kind = "num" /\ v.val = 0)

InList(f, list) == \E i \in 1..Len(list) : list[i] = f

\* C14 as stated: after a successful parse a required field is listed in
\* missing_fields iff its value is empty or null (hours: null).
C14_ListedIffEmptyOrNull ==
    ExtractParsed
    => /\ InList("date", result.missing_fields) <=> EmptyOrNull(extract_response.date)
       /\ InList("client", result.missing_fields) <=> EmptyOrNull(extract_response.client)
       /\ InList("description", result.missing_fields)
             <=> EmptyOrNull(extract_response.description)
       /\ InList("hours", result.missing_fields)
             <=> extract_response.hours.kind \in {"absent", "null"}

\* C14: after a successful parse missing_fields is recomputed from the four
\* required values and does not depend on the list the backend reported:
\* date, client and description are listed iff their value is null, empty or
\* otherwise false in Python's sense (such as 0), hours iff it is null, and
\* the same answer with any other reported list gives the same list.
C14_MissingRecomputed ==
    ExtractParsed
    => /\ InList("date", result.missing_fields) <=> NoValue(extract_response.date)
       /\ InList("client", result.missing_fields) <=> NoValue(extract_response.client)
       /\ InList("description", result.missing_fields)
             <=> NoValue(extract_response.description)
       /\ InList("hours", result.missing_fields)
             <=> extract_response.hours.kind \in {"absent", "null"}
       /\ \A i, j \in 1..Len(result.missing_fields) :
             i < j => \E a, b \in 1..4 :
                         /\ a < b
                         /\ RequiredFields[a] = result.missing_fields[i]
                         /\ RequiredFields[b] = result.missing_fields[j]
       /\ \A m \in ReportedLists :
             LET other == [extract_response EXCEPT !.reported = m]
             IN  /\ HelperExtractAfterBackend(other).missing_fields = result.missing_fields
                 /\ ServerExtractAfterBackend(other).missing_fields = result.missing_fields

C14_Witness ==
    /\ ExtractParsed
    /\ op = "ai_extract_time_entry"
    /\ extract_response.reported = [given |-> TRUE, list |-> <<>>]
    /\ extract_response.date = JNum(0)
    /\ extract_response.hours = JNull
    /\ result.missing_fields = <<"date", "hours">>

\* C15: for an empty or whitespace-only query both extraction functions
\* return the all-missing record, in every configuration, without calling
\* the backend.
C15_BlankQueryNeverFails ==
    (ExtractDone /\ (args.query = None \/ \A i \in 1..Len(args.query) : args.query[i] = " "))
    => /\ result.kind = "extracted"
       /\ result.missing_fields = <<"date", "client", "description", "hours">>
       /\ \A f \in {"date", "client", "description", "hours", "project", "task"} :
             result[f] = JNull
       /\ aiCalls = 0

\* the result has the shape of the value: strings of the same length with
\* each wide character replaced by "?" and the others kept, containers of
\* the same kind with as many items, sanitized item by item, and every
\* other leaf unchanged
RECURSIVE SameShape(_, _)
SameShape(in, out) ==
    IF in.kind = "str"
    THEN /\ out.kind = "str"
         /\ Len(out.val) = Len(in.val)
         /\ \A i \in 1..Len(in.val) :
               out.val[i] = (IF in.val[i] \in {"U+0100", "U+0101"} THEN "?" ELSE in.val[i])
    ELSE IF in.kind \in {"list", "tuple"}
    THEN /\ out.kind = in.kind
         /\ Len(out.val) = Len(in.val)
         /\ \A i \in 1..Len(in.val) : SameShape(in.val[i], out.val[i])
    ELSE IF in.kind = "dict"
    THEN /\ out.kind = "dict"
         /\ Len(out.val) = Len(in.val)
         /\ \A i \in 1..Len(in.val) :
               /\ SameShape(in.val[i].k, out.val[i].k)
               /\ SameShape(in.val[i].v, out.val[i].v)
    ELSE out = in

\* C16: sanitize_unicode replaces each character above 255 by "?" and keeps
\* the others, through nested dicts, lists and tuples, and the result has the
\* container kinds, the sequence lengths and the numbers of mapping entries
\* of the input, with every non-string leaf unchanged.
C16_SanitizePreservesStructure ==
    (pc = "done" /\ op = "sanitize_unicode") => SameShape(args.value, result.value)

\* C17: book_meeting with an unparseable start or end, or with an end equal
\* to or earlier than the start, fails with a validation error before any
\* provider call is made and without sending a write.
C17_BadTimesFailBeforeProvider ==
    (BookingDone
        /\ (\/ ~args.start_datetime.ok
            \/ ~args.end_datetime.ok
            \/ /\ args.start_datetime.aware = args.end_datetime.aware
               /\ args.end_datetime.t <= args.start_datetime.t))
    => /\ result.kind = "raise"
       /\ result.error \in {"Invalid datetime format", "End time must be after start time"}
       /\ calls = <<>>
       /\ request = NoRequest

C17_Witness ==
    /\ BookingDone
    /\ args.start_datetime = DateTime(1)
    /\ args.end_datetime = DateTime(1)
    /\ args.sender_name = <<"a", "b">>
    /\ args.user_email = <<"A", "@">>
    /\ Len(directory) = 2
    /\ result.error = "End time must be after start time"

\* C18: every event-creation request of book_meeting lists the resolved
\* sender exactly once among its attendees (comparing addresses without
\* regard to letter case), as a required attendee, and its body begins with
\* the sender attribution.
C18_SenderOnceAndAttributed ==
    (BookingDone /\ request.kind = "create_event")
    => LET sender == users_list[ResolveSender(args.sender_name, users_list).idx]
           mine == {i \in 1..Len(request.attendees) :
                      Lower(request.attendees[i].address) = Lower(sender.email)}
           info == <<"<p><strong>Booked by:</strong> ">> \o sender.name
                       \o <<" (">> \o sender.email \o <<")</p>">>
       IN  /\ Cardinality(mine) = 1
           /\ \A i \in mine : request.attendees[i].type = "required"
           /\ Len(request.content) >= Len(info)
           /\ SubSeq(request.content, 1, Len(info)) = info

C18_Witness ==
    /\ BookingDone
    /\ request.kind = "create_event"
    /\ result.kind = "booked"
    /\ result.user.email = <<"a", "@">>
    /\ args.attendees.given
    /\ Len(args.attendees.list) = 4
    /\ args.body # <<>>
    /\ Len(request.attendees) = 3

TimeEntryDone == pc = "done" /\ op = "process_time_entry"

\* the extraction of the call parsed the backend's answer into an object
TimeEntryParsed ==
    /\ TimeEntryDone
    /\ extract_response.kind = "text"
    /\ extract_response.body = "object"
    /\ extract_response.fence \in {"none", "bare", "json"}

\* the required fields that the parsed answer leaves without a value
ExpectedMissing ==
    (IF NoValue(extract_response.date) THEN <<"date">> ELSE <<>>)
        \o (IF NoValue(extract_response.client) THEN <<"client">> ELSE <<>>)
        \o (IF NoValue(extract_response.description) THEN <<"description">> ELSE <<>>)
        \o (IF extract_response.hours.kind \in {"absent", "null"} THEN <<"hours">> ELSE <<>>)

\* the names in a message part written as name, ", ", name, ...
NamesIn(text) ==
    [i \in 1..((Len(text) + 1) \div 2) |-> text[2 * i - 1]]

\* C19: when the extraction of process_time_entry yields a non-empty
\* missing_fields, the call fails with an error whose message enumerates
\* exactly those field names, and no webhook POST is made.
C19_MissingFieldsFailTheCall ==
    /\ (TimeEntryParsed /\ ExpectedMissing # <<>>)
       => /\ result.kind = "raise"
          /\ result.error = "Missing required fields in time entry query"
          /\ NamesIn(result.missing_list) = ExpectedMissing
          /\ \A i \in 1..Len(result.missing_list) :
                (i % 2 = 0) => result.missing_list[i] = ", "
          /\ request = NoRequest
          /\ \A i \in 1..Len(calls) : calls[i] # "post"
    /\ (TimeEntryDone /\ result.kind = "raise"
           /\ result.error = "Missing required fields in time entry query")
       => /\ NamesIn(result.missing_list)
                = (IF extract_response.kind = "nocall"
                   THEN <<"date", "client", "description", "hours">>
                   ELSE ExpectedMissing)
          /\ request = NoRequest

C19_Witness ==
    /\ TimeEntryParsed
    /\ args.query = <<"a">>
    /\ extract_response.hours = JNull
    /\ extract_response.reported = [given |-> FALSE, list |-> <<>>]
    /\ result.kind = "raise"
    /\ result.missing_list = <<"hours">>
    /\ calls = <<"token", "users">>

\* the webhook URL is set and, stripped, starts with "http"
WebhookUsable ==
    /\ webhook # None
    /\ LET url == Strip(webhook)
       IN  Len(url) >= 4 /\ SubSeq(url, 1, 4) = <<"h", "t", "t", "p">>

\* the call got as far as the users list
UsersFetched ==
    Len(calls) >= 2 /\ ~(Len(calls) = 2 /\ result.error = "HTTPStatusError")

\* C20: process_time_entry sends the webhook POST at most once, and only
\* when the webhook URL is usable, userName was resolved to an identity and
\* the extraction returned an empty missing_fields; with an unusable webhook
\* it fails before any directory or backend call, and with an unresolved
\* user it fails before the extraction.
C20_PostOnlyWhenAllChecksPass ==
    TimeEntryDone
    => LET who == ResolveUserName(args.userName, users_list, azure_openai_client, response)
       IN  /\ Cardinality({i \in 1..Len(calls) : calls[i] = "post"}) <= 1
           /\ (request # NoRequest) <=> (\E i \in 1..Len(calls) : calls[i] = "post")
           /\ (\E i \in 1..Len(calls) : calls[i] = "post")
              => /\ WebhookUsable
                 /\ calls = <<"token", "users", "post">>
                 /\ who.kind = "user"
                 /\ request.userName = who.user.name
                 /\ TimeEntryParsed
                 /\ ExpectedMissing = <<>>
           /\ ~WebhookUsable
              => /\ result.kind = "raise"
                 /\ result.error = "Invalid N8N_TIMEENTRY_WEBHOOK"
                 /\ calls = <<>>
                 /\ aiCalls = 0
           /\ (WebhookUsable /\ UsersFetched /\ who.kind # "user")
              => /\ result.kind = "raise"
                 /\ extract_response.kind = "nocall"
                 /\ request = NoRequest

C20_Witness ==
    /\ TimeEntryDone
    /\ result.kind = "success"
    /\ calls = <<"token", "users", "post">>
    /\ response.kind = "text"
    /\ extract_response.kind = "text"
    /\ aiCalls = 2
    /\ request.kind = "post"
    /\ webhook = <<" ", "h", "t", "t", "p", ":", " ">>

\* one of the three AI-backend environment variables is not set
CredentialsAbsent == ~(credentials.key /\ credentials.endpoint /\ credentials.model)

\* some pool entry has the email of userName, compared trimmed and without
\* regard to letter case
EmailKnown ==
    \E i \in 1..Len(users_list) :
        users_list[i].email # None
            /\ Strip(Lower(users_list[i].email)) = Strip(Lower(args.userName))

\* C21: when AI-backend credentials are absent the time-entry server loads
\* without a client, the directory listing and the email lookup of userName
\* work as they do with credentials, and ai_match_user_name and
\* ai_extract_time_entry (called directly or by process_time_entry) raise
\* 'Azure OpenAI not configured' without a backend call.
C21_NoCredentialsDisablesOnlyAI ==
    CredentialsAbsent
    => /\ ~azure_openai_client
       /\ (pc = "done")
          => /\ aiCalls = 0
             /\ response = NoResponse
             /\ extract_response.kind = "nocall"
             /\ op \in {"ai_match_user_name", "ai_extract_time_entry"}
                => result.kind = "raise" /\ result.error = "Azure OpenAI not configured"
             /\ op = "fetch_users_list"
                => \/ result.kind = "raise" /\ result.error = "HTTPStatusError"
                      /\ Len(calls) <= 2
                   \/ /\ result.kind = "users"
                      /\ calls = <<"token", "users">>
                      /\ result.users \in {<<>>, FetchUsers(directory)}
             /\ (op = "process_time_entry" /\ UsersFetched)
                => /\ users_list = FetchUsers(directory)
                   /\ result.kind = "raise"
                   /\ request = NoRequest
                   /\ (HasAt(args.userName) /\ ~EmailKnown)
                      => result.error = "User email not found"
                   /\ (HasAt(args.userName) /\ EmailKnown)
                      => result.error = "Azure OpenAI not configured"
                   /\ ~HasAt(args.userName)
                      => result.error = "Azure OpenAI not configured"

C21_Witness ==
    /\ pc = "done"
    /\ op = "process_time_entry"
    /\ credentials = [key |-> TRUE, endpoint |-> FALSE, model |-> TRUE]
    /\ args.userName = <<" ", "A", "@", " ">>
    /\ Len(users_list) = 2
    /\ result.error = "Azure OpenAI not configured"
    /\ calls = <<"token", "users">>

FetchDone == pc = "done" /\ op \in {"_fetch_users_list", "fetch_users_list"}

\* C22: every identity in the list a directory fetch returns has a non-null
\* email and a non-null display name, for every provider answer: the email
\* is the mail or else the userPrincipalName, and the name is 'Unknown'
\* whenever the provider supplies no display name.
C22_FetchedIdentitiesComplete ==
    (FetchDone /\ result.kind = "users" /\ args.has_value)
    => /\ Len(result.users) = Len(directory)
       /\ \A i \in 1..Len(result.users) :
             /\ result.users[i].email # None
             /\ result.users[i].name # None
             /\ directory[i].displayName \in {Absent, None}
                => result.users[i].name = <<"U", "n", "k", "n", "o", "w", "n">>

\* check_availability looked a name up in the users it fetched
NameLookupDone ==
    /\ AvailabilityDone
    /\ ~HasAt(args.user_email)
    /\ Len(calls) >= 2
    /\ ~(Len(calls) = 2 /\ result.kind = "raise" /\ result.error = "HTTPStatusError")

\* book_meeting looked the sender up in the users it fetched
SenderLookupDone ==
    /\ BookingDone
    /\ Len(calls) >= 2
    /\ ~(Len(calls) = 2 /\ result.kind = "raise" /\ result.error = "HTTPStatusError")

\* the name lookup of check_availability failed: nothing was found, or it
\* crashed
LookupFailed ==
    /\ Len(calls) = 2
    /\ result.kind = "raise"
    /\ result.error \in {"User not found by name", "AttributeError"}

\* the pool entries whose normalized name equals the normalized query q
ExactMatches(q) ==
    {i \in 1..Len(users_list) :
        /\ users_list[i].name # None
        /\ JoinSpace(Split(Strip(Lower(users_list[i].name))))
              = JoinSpace(Split(Strip(Lower(q))))}

\* the pool entries whose normalized name equals, contains or is contained
\* in the normalized query q
Candidates(q) ==
    {i \in 1..Len(users_list) :
        /\ users_list[i].name # None
        /\ LET n == JoinSpace(Split(Strip(Lower(users_list[i].name))))
               k == JoinSpace(Split(Strip(Lower(q))))
           IN  IsSubstring(k, n) \/ IsSubstring(n, k)}

\* C23: whenever some pool name equals the query after normalization, the
\* lookup returns the first such entry in directory order, whatever longer
\* names contain the query.
C23_ExactMatchFirst ==
    /\ (NameLookupDone /\ ExactMatches(args.user_email) # {})
       => /\ ~LookupFailed
          /\ result.kind = "availability"
             => result.user.email = users_list[SetMin(ExactMatches(args.user_email))].email
    /\ (SenderLookupDone /\ ExactMatches(args.sender_name) # {})
       => /\ ~(result.kind = "raise" /\ result.error = "Sender not found")
          /\ result.kind = "booked"
             => result.user = users_list[SetMin(ExactMatches(args.sender_name))]

\* C24: for a name query the lookup fails with 'not found' iff no pool name
\* equals, contains or is contained in the query after normalization; with
\* one or more such entries it resolves to one of them.
C24_NeverRefusesOnAmbiguity ==
    NameLookupDone
    => /\ (Candidates(args.user_email) = {})
          <=> (result.kind = "raise" /\ result.error = "User not found by name")
       /\ (Candidates(args.user_email) # {})
          => /\ ~LookupFailed
             /\ result.kind = "availability"
                => \E i \in Candidates(args.user_email) :
                      users_list[i].email = result.user.email

\* no pool entry lacks a name
AllNamed == \A i \in 1..Len(users_list) : users_list[i].name # None

C23_AmongNamed == AllNamed => C23_ExactMatchFirst

C24_AmongNamed == AllNamed => C24_NeverRefusesOnAmbiguity

ViewDone == pc = "done" /\ op = "get_calendar_view"

\* get_calendar_view got as far as the first page request
PagesAsked == ViewDone /\ Len(calls) > 3

\* the events of the first n pages, in page order
RECURSIVE EventsUpTo(_, _)
EventsUpTo(pages, n) ==
    IF n = 0 THEN <<>> ELSE EventsUpTo(pages, n - 1) \o pages[n].value

\* C25: for a chain of n pages get_calendar_view follows every continuation
\* link, issues exactly n page requests and returns the events of all pages
\* in page order; a failed page request raises and returns nothing.
C25_AllPagesFollowed ==
    PagesAsked
    => LET n == Len(args.pages)
           asked == Len(calls) - 3
       IN  /\ \A i \in 4..Len(calls) : calls[i] = "calendar_view"
           /\ Len(request.urls) = asked
           /\ \A i \in 1..asked : request.urls[i] = (IF i = 1 THEN 0 ELSE i)
           /\ asked <= n
           /\ result.kind = "events"
              => /\ asked = n
                 /\ result.value = EventsUpTo(args.pages, n)
           /\ result.kind # "events"
              => result.kind = "raise" /\ result.error = "HTTPStatusError"

C25_Witness ==
    /\ ViewDone
    /\ Len(args.pages) = 3
    /\ result.kind = "events"
    /\ result.value = <<2, 1, 1>>
    /\ Len(calls) = 6

FreeSlotsDone == pc = "done" /\ op = "calculate_free_slots"

\* the slots returned by calculate_free_slots
ReturnedSlots == {result.value[i] : i \in 1..Len(result.value)}

\* the busy times calculate_free_slots was called with
GivenBusy == {args.busy_times[i] : i \in 1..Len(args.busy_times)}

\* C26: every free slot lies inside the business window 09:00-17:00 of the
\* date (start >= 09:00, end <= 17:00, start < end); with no busy times the
\* result is the single slot 09:00-17:00 of 8 hours.
C26_SlotsInsideBusinessHours ==
    FreeSlotsDone
    => /\ \A slot \in ReturnedSlots :
            /\ slot.start >= DateTimeAt(args.date, 9)
            /\ slot.end <= DateTimeAt(args.date, 17)
            /\ slot.start < slot.end
       /\ args.busy_times = <<>>
          => result.value = <<[start |-> DateTimeAt(args.date, 9),
                               end |-> DateTimeAt(args.date, 17),
                               duration_hours |-> 8]>>

\* C27: no returned free slot overlaps a busy interval, whatever the order,
\* overlap or nesting of the busy times.
C27_SlotsAvoidBusyTimes ==
    FreeSlotsDone
    => \A slot \in ReturnedSlots : \A busy \in GivenBusy :
           slot.end <= busy.start \/ busy.end <= slot.start

\* the query given to the name resolver is None, empty or only whitespace
QueryBlank == query_name = None \/ \A i \in 1..Len(query_name) : query_name[i] = " "

\* the name resolver was called with nothing to match
NothingToMatch == ResolverDone /\ (QueryBlank \/ users_list = <<>>)

\* ai_match_user_name was called in a server that built no client
Unconfigured == op = "ai_match_user_name" /\ ~azure_openai_client

\* C28: the AI name resolver returns None without a backend call whenever
\* the query is empty or whitespace-only or the pool is empty; the backend is
\* called only for a non-blank query over a non-empty pool.
C28_NothingToMatchReturnsNone ==
    /\ NothingToMatch => (result = ReturnNone /\ aiCalls = 0)
    /\ (ResolverDone /\ aiCalls > 0) => (~QueryBlank /\ users_list # <<>>)

\* C28, amended: with nothing to match no backend call is made and the
\* result is None, except in ai_match_user_name without a client, which
\* raises 'Azure OpenAI not configured'; the backend is called only for a
\* non-blank query over a non-empty pool.
C28_NothingToMatchNeverAsks ==
    /\ NothingToMatch
       => /\ aiCalls = 0
          /\ response = NoResponse
          /\ result = (IF Unconfigured THEN Raise("Azure OpenAI not configured")
                       ELSE ReturnNone)
    /\ (ResolverDone /\ aiCalls > 0) => (~QueryBlank /\ users_list # <<>>)

C28_Witness ==
    /\ ResolverDone
    /\ op = "match_user_name"
    /\ query_name = <<" ">>
    /\ users_list # <<>>
    /\ result = ReturnNone
    /\ aiCalls = 0

\* the userName given to process_time_entry contains '@'
UserNameIsEmail == \E i \in 1..Len(args.userName) : args.userName[i] = "@"

\* process_time_entry fetched the directory and took the email branch
EmailBranchTaken == TimeEntryDone /\ UsersFetched /\ UserNameIsEmail

\* the first fetched user whose email is userName, case and outer
\* whitespace aside
FirstWithEmail ==
    users_list[SetMin({i \in 1..Len(users_list) :
                          users_list[i].email # None
                              /\ Strip(Lower(users_list[i].email))
                                     = Strip(Lower(args.userName))})]

\* C29: a userName containing '@' is resolved by the email lookup alone: no
\* name-matching backend call, the identity is the first fetched user with
\* that email (case-insensitive, trimmed), and an email that no fetched user
\* has fails the call before the extraction and before any POST.
C29_EmailResolvedByLookup ==
    EmailBranchTaken
    => /\ response = NoResponse
       /\ ~EmailKnown
          => /\ result.kind = "raise"
             /\ result.error = "User email not found"
             /\ extract_response = NoExtraction
             /\ aiCalls = 0
             /\ request = NoRequest
             /\ \A i \in 1..Len(calls) : calls[i] # "post"
       /\ EmailKnown
          => /\ result.error # "User email not found"
             /\ request # NoRequest => request.userName = FirstWithEmail.name
             /\ result.kind = "success"
                => /\ result.user.name = FirstWithEmail.name
                   /\ result.user.email = FirstWithEmail.email

C29_Witness ==
    /\ EmailBranchTaken
    /\ args.userName = <<" ", "A", "@", " ">>
    /\ Len(users_list) = 2
    /\ users_list[1].email = <<"a", "@">>
    /\ users_list[2].email = <<"A", "@">>
    /\ users_list[1].name # users_list[2].name
    /\ result.kind = "success"
    /\ result.user = users_list[1]
    /\ response = NoResponse

====
